---- MODULE Spec2Model ----
(***************************************************************************)
(* Model of the group-application backup worker (BackupAPPNew) of          *)
(* rainbond's builder/exector package.                                     *)
(*                                                                         *)
(* One run of the worker is modelled: Run reads the metadata file,         *)
(* classifies it, walks the services (versions, then volumes), walks the   *)
(* plugin build versions, zips the working directory, optionally pushes    *)
(* the zip and persists the status.  The collaborators (filesystem,        *)
(* registry, sftp server, status store) answer nondeterministically.       *)
(***************************************************************************)
EXTENDS Integers, Sequences, FiniteSets, TLC

VARIABLES
    b,                  \* the BackupAPPNew fields Run reads and writes
    metadata,           \* region_apps_metadata.json as found in b.SourceDir
    pc,                 \* position of Run
    judged,             \* what judgeMetadataVersion returned to Run
    serviceInfos,       \* the []*RegionServiceSnapshot handed to backupServiceInfo
    plugins,            \* number of appSnapshot.PluginBuildVersions
    si,                 \* backupServiceInfo: index of the service (app)
    vi,                 \* backupServiceInfo: index of the version
    backupVersionSize,  \* backupServiceInfo: versions counted for the service
    voli,               \* backupServiceInfo: index of the volume
    pli,                \* backupPluginInfo: index of the plugin build version
    err,                \* the error Run returned (nil while running)
    local,              \* files on the local filesystem: path -> size
    remote,             \* objects on the sftp server and the hub: path -> size
    sharedData,         \* services whose shared data directory is not empty
    probed,             \* version loop: what the last existence check was answered
    faults,             \* collaborator calls that failed so far
    sessions,           \* sftp sessions: what was done with them, in order
    creater,            \* BackupAPPNewCreater: its arguments and what it returned
    proxy,              \* package proxy: the arguments of a call and what it returned
    etcd,               \* the etcd Component: its fields and its goroutine
    ops,                \* collaborator calls made so far, in order
    record              \* the persisted backup record

vars == <<b, metadata, pc, judged, serviceInfos, plugins, si, vi,
          backupVersionSize, voli, pli, err, local, remote, sharedData, probed,
          faults, sessions, creater, proxy, etcd, ops, record>>

OldMetadata == "OldMetadata"
NewMetadata == "NewMetadata"
maxBackupVersionSize == 3

\* Bounds of the inputs.
MaxServices == 2
MaxRecords == 2
MaxVersions == 4
MaxVolumes == 3
MaxPlugins == 2
MaxFaults == 2

nil == [msg |-> "nil", app |-> 0]
Error(m) == [msg |-> m, app |-> 0]

(***************************************************************************)
(* Inputs.                                                                 *)
(***************************************************************************)
VersionSet ==
    { [DeliveredType |-> "slug",  FinalStatus |-> "success"],
      [DeliveredType |-> "image", FinalStatus |-> "success"],
      [DeliveredType |-> "slug",  FinalStatus |-> "failure"],
      [DeliveredType |-> "other", FinalStatus |-> "success"] }

VolumeSet == { [HostPath |-> ""], [HostPath |-> "/grlocaldata/v"] }

SeqsUpTo(S, n) == UNION { [1..k -> S] : k \in 0..n }

\* A service and its shared data directory (data: the directory is not
\* empty), holding at most k records together: versions, volumes and the
\* content of the directory.
ServicesWith(k) ==
    UNION { UNION { { [Versions |-> vs, ServiceVolume |-> vols, data |-> d] :
                        d \in IF Len(vs) + Len(vols) < k THEN BOOLEAN ELSE {FALSE} } :
                    vols \in SeqsUpTo(VolumeSet, k - Len(vs)) } :
            vs \in SeqsUpTo(VersionSet, k) }

Weight(app) == Len(app.Versions) + Len(app.ServiceVolume) + (IF app.data THEN 1 ELSE 0)

\* Lists of at most n services holding at most k records together.
RECURSIVE SnapshotsOf(_, _)
SnapshotsOf(n, k) ==
    IF n = 0 THEN { <<>> }
    ELSE { <<>> } \cup
         UNION { { <<app>> \o rest : rest \in SnapshotsOf(n - 1, k - Weight(app)) } :
                 app \in ServicesWith(k) }

\* The versions backupServiceInfo backs up.
SuccessVersionSet ==
    { ver \in VersionSet :
        ver.FinalStatus = "success" /\ ver.DeliveredType \in {"slug", "image"} }

\* A single service of at most n slug and image versions of status success,
\* no volume, no shared data.
SingleServiceOf(n) ==
    { <<[Versions |-> vs, ServiceVolume |-> <<>>, data |-> FALSE]>> :
        vs \in SeqsUpTo(SuccessVersionSet, n) }

\* A single service of one slug version of status success and at most n
\* volumes, its shared data directory empty or not.
StoredServiceOf(n) ==
    UNION { { <<[Versions |-> <<[DeliveredType |-> "slug", FinalStatus |-> "success"]>>,
                 ServiceVolume |-> vols, data |-> d]>> :
                d \in BOOLEAN } :
            vols \in SeqsUpTo(VolumeSet, n) }

\* n services, each of one slug version of status success and one volume
\* with a host path, the shared data directory of each empty or not.
RECURSIVE StoredServicesOf(_)
StoredServicesOf(n) ==
    IF n = 0 THEN { <<>> }
    ELSE { ss \o <<[Versions |-> <<[DeliveredType |-> "slug", FinalStatus |-> "success"]>>,
                    ServiceVolume |-> <<[HostPath |-> "/grlocaldata/v"]>>,
                    data |-> d]>> :
             ss \in StoredServicesOf(n - 1), d \in BOOLEAN }

\* The []*RegionServiceSnapshot of a list of services.
Snapshot(ss) ==
    [i \in 1..Len(ss) |-> [Versions |-> ss[i].Versions, ServiceVolume |-> ss[i].ServiceVolume]]

\* The services of a list whose shared data directory is not empty.
WithData(ss) == { i \in 1..Len(ss) : ss[i].data }

Blob(r, k, ss, n) == [readable |-> r, kind |-> k, services |-> Snapshot(ss), plugins |-> n]

World(r, k, ss, n) == [metadata |-> Blob(r, k, ss, n), sharedData |-> WithData(ss)]

\* The worlds Run is started in.  The metadata file is missing or is a JSON
\* document of one of four shapes: neither schema, null, a bare list of
\* service snapshots (legacy), an object of service snapshots and plugin
\* build versions (structured).  A snapshot holds at most MaxRecords
\* records, or is a single service of up to MaxVersions success versions,
\* or is a single service of one version and up to MaxVolumes volumes.
WorldSet ==
    { World(FALSE, "invalid", <<>>, 0),
      World(TRUE, "invalid", <<>>, 0),
      World(TRUE, "null", <<>>, 0) }
    \cup { World(TRUE, "legacy", ss, 0) :
             ss \in SnapshotsOf(MaxServices, MaxRecords) \cup SingleServiceOf(MaxVersions) }
    \cup UNION { { World(TRUE, "structured", ss, n) :
                      ss \in SnapshotsOf(MaxServices, MaxRecords - n) } :
                  n \in 0..MaxPlugins }
    \cup { World(TRUE, "structured", ss, 0) :
             ss \in SingleServiceOf(MaxVersions) \cup StoredServiceOf(MaxVolumes)
                    \cup StoredServicesOf(MaxServices) }

\* The directory the metadata file lies in and the artifacts are written to.
WorkDir == "/grdata/bk"

\* The task descriptor's fields that decide the destinations.
Task(m, h, p, u) ==
    [Mode |-> m, FTPHost |-> h, FTPPort |-> p, HubURL |-> u,
     SourceDir |-> WorkDir, SourceType |-> "local", BackupSize |-> 0]

TaskSet ==
    { Task("full-online",  "sftp.host", "22", "hub.host"),
      Task("full-offline", "sftp.host", "22", "hub.host"),
      [Task("full-online", "sftp.host", "",   "") EXCEPT !.SourceDir = WorkDir \o "/"],
      Task("full-online",  "",          "22", "hub.host") }

(***************************************************************************)
(* Collaborators and helpers.                                              *)
(***************************************************************************)
\* A map with key k set to v (a file written, an object pushed).
Put(f, k, v) == [x \in (DOMAIN f) \cup {k} |-> IF x = k THEN v ELSE f[x]]

\* A map without the keys in ks (files removed).
Drop(f, ks) == [x \in (DOMAIN f) \ ks |-> f[x]]

\* Total size of the files ks of the store f.
RECURSIVE SumOver(_, _)
SumOver(f, ks) ==
    IF ks = {} THEN 0
    ELSE LET k == CHOOSE x \in ks : TRUE IN f[k].size + SumOver(f, ks \ {k})

\* strings.HasPrefix
HasPrefix(str, prefix) ==
    Len(str) >= Len(prefix) /\ SubSeq(str, 1, Len(prefix)) = prefix

\* strings.HasSuffix
HasSuffix(str, suffix) ==
    Len(str) >= Len(suffix) /\ SubSeq(str, Len(str) - Len(suffix) + 1, Len(str)) = suffix

\* The directory dir as the prefix of the paths of its files: the
\* filesystem resolves the `dir//name` of fmt.Sprintf("%s/name", dir) for
\* a dir that ends with a separator to `dir/name`.
Slash(dir) == IF HasSuffix(dir, "/") THEN dir ELSE dir \o "/"

\* The files of the store f that lie under the directory dir.
FilesUnder(f, dir) == { x \in DOMAIN f : HasPrefix(x, dir \o "/") }

ServiceID(s) == "svc" \o ToString(s)
BuildVersion(v) == "bv" \o ToString(v)
VolumeName(k) == "vol" \o ToString(k)
PluginID(k) == "plugin" \o ToString(k)

\* util.GetFileSize of a slug file, info.Size of a pulled image.
ArtifactSize(version) == IF version.DeliveredType = "slug" THEN 2 ELSE 3

\* version.DeliveredPath: the slug file or the image reference of a version.
DeliveredPath(s, v, version) ==
    IF version.DeliveredType = "slug"
    THEN "/grdata/build/tenant/slug/" \o ServiceID(s) \o "/" \o BuildVersion(v) \o ".tgz"
    ELSE "goodrain.me/" \o ServiceID(s) \o ":" \o BuildVersion(v)

\* A stored file or object: its size and where its content came from.
File(n, from) == [size |-> n, src |-> from]

\* A decoder of AppSnapshot that takes any document.
UnmarshalAppSnapshotAny(blob) ==
    [Services |-> blob.services, PluginBuildVersions |-> blob.plugins, err |-> nil]

\* ffjson.Unmarshal(metadata, &appSnapshot): a JSON object with well-typed
\* fields decodes, and so does the JSON null.
UnmarshalAppSnapshot(blob) ==
    IF blob.kind \in {"structured", "null"}
    THEN [Services |-> blob.services, PluginBuildVersions |-> blob.plugins, err |-> nil]
    ELSE [Services |-> <<>>, PluginBuildVersions |-> 0, err |-> Error("cannot unmarshal into AppSnapshot")]

\* ffjson.Unmarshal(metadata, &svcSnapshot): a JSON array of well-typed
\* objects decodes, and so does the JSON null.
UnmarshalServiceList(blob) ==
    IF blob.kind \in {"legacy", "null"}
    THEN [Services |-> blob.services, err |-> nil]
    ELSE [Services |-> <<>>, err |-> Error("cannot unmarshal into []RegionServiceSnapshot")]

judgeMetadataVersion(blob) ==
    IF UnmarshalAppSnapshot(blob).err = nil
    THEN [version |-> NewMetadata, err |-> nil]
    ELSE IF UnmarshalServiceList(blob).err = nil
         THEN [version |-> "", err |-> UnmarshalServiceList(blob).err]
         ELSE [version |-> OldMetadata, err |-> nil]

\* What the filesystem or the registry answers to the existence check.
Probes == {"present", "missing", "error"}

\* The existence check with a failed probe taken for a found artifact.
checkVersionExistOrError(version, probe) ==
    [ok |-> version.DeliveredType \in {"slug", "image"} /\ probe # "missing",
     err |-> IF probe = "error" THEN Error("probe") ELSE nil]

\* checkVersionExist, lines 306-334: (ok, err) for what the probe answered.
checkVersionExist(version, probe) ==
    IF version.DeliveredType = "image"
    THEN IF probe = "present" THEN [ok |-> TRUE, err |-> nil]
         ELSE [ok |-> FALSE, err |-> Error("manifest")]
    ELSE IF version.DeliveredType = "slug"
    THEN IF probe = "missing" THEN [ok |-> FALSE, err |-> nil]
         ELSE IF probe = "error" THEN [ok |-> FALSE, err |-> Error("stat")]
         ELSE [ok |-> TRUE, err |-> nil]
    ELSE [ok |-> FALSE, err |-> Error("delivered type is invalid")]

\* The collaborator call that fails during one step, if any.
FailPoints == {"none", "session", "push", "copy", "share", "pull", "tag", "save"}

\* The test of lines 181 and 336 without the port.
SlugIsRemoteAnyPort(bb) == bb.Mode = "full-online" /\ bb.FTPHost # ""

\* `b.Mode == "full-online" && b.SlugInfo.FTPHost != "" && b.SlugInfo.FTPPort != ""`,
\* lines 181 and 336.
SlugIsRemote(bb) == bb.Mode = "full-online" /\ bb.FTPHost # "" /\ bb.FTPPort # ""

\* The hub test without its mode: any task with a hub URL.
ImageIsRemoteAnyMode(bb) == bb.HubURL # ""

\* `b.Mode == "full-online" && b.ImageInfo.HubURL != ""`, line 364.
ImageIsRemote(bb) == bb.Mode = "full-online" /\ bb.HubURL # ""

\* uploadSlug, lines 337-350: the slug file is pushed to the sftp server.
pushSlug(bb, loc, rem, s, v, version, fail) ==
    IF fail = "session"
    THEN [b |-> bb, local |-> loc, remote |-> rem, err |-> Error("create ftp client error")]
    ELSE IF fail = "push"
    THEN [b |-> bb, local |-> loc, remote |-> rem, err |-> Error("push slug file error")]
    ELSE [b |-> [bb EXCEPT !.BackupSize = @ + ArtifactSize(version)],
          local |-> loc,
          remote |-> Put(rem, "ns/backup/group_version/app_" \o ServiceID(s)
                                \o "/" \o BuildVersion(v) \o ".tgz",
                         File(ArtifactSize(version), DeliveredPath(s, v, version))),
          err |-> nil]

\* uploadSlug, lines 352-358: the slug file is copied into the source directory.
copySlug(bb, loc, rem, s, v, version, fail) ==
    IF fail = "copy"
    THEN [b |-> bb, local |-> loc, remote |-> rem, err |-> Error("copy slug file error")]
    ELSE [b |-> bb,
          local |-> Put(loc, Slash(bb.SourceDir) \o "app_" \o ServiceID(s)
                               \o "/slug_" \o BuildVersion(v) \o ".tgz",
                        File(ArtifactSize(version), DeliveredPath(s, v, version))),
          remote |-> rem, err |-> nil]

\* uploadSlug adding the size of the slug file on both paths, after the
\* path's own accounting.
uploadSlugSizedTwice(bb, loc, rem, s, v, version, fail) ==
    LET r == IF SlugIsRemote(bb)
             THEN pushSlug(bb, loc, rem, s, v, version, fail)
             ELSE copySlug(bb, loc, rem, s, v, version, fail) IN
    IF r.err = nil THEN [r EXCEPT !.b.BackupSize = @ + ArtifactSize(version)] ELSE r

\* uploadSlug: the task, the local files and the remote objects afterwards.
uploadSlug(bb, loc, rem, s, v, version, fail) ==
    IF SlugIsRemote(bb)
    THEN pushSlug(bb, loc, rem, s, v, version, fail)
    ELSE copySlug(bb, loc, rem, s, v, version, fail)

\* uploadImage: the task, the local files and the remote objects afterwards.
uploadImage(bb, loc, rem, s, v, version, fail) ==
    IF ImageIsRemote(bb)
    THEN IF fail = "share"
         THEN [b |-> bb, local |-> loc, remote |-> rem, err |-> Error("create backup image error")]
         ELSE IF fail = "pull"
         THEN [b |-> bb, local |-> loc, remote |-> rem, err |-> Error("pull image when backup error")]
         ELSE IF fail = "tag"
         THEN [b |-> bb, local |-> loc, remote |-> rem, err |-> Error("change image tag when backup error")]
         ELSE IF fail = "push"
         THEN [b |-> bb, local |-> loc, remote |-> rem, err |-> Error("backup image push error")]
         ELSE [b |-> [bb EXCEPT !.BackupSize = @ + ArtifactSize(version)],
               local |-> loc,
               remote |-> Put(rem, bb.HubURL \o "/ns/" \o ServiceID(s) \o "_"
                                     \o BuildVersion(v) \o ":version_backup",
                              File(ArtifactSize(version), DeliveredPath(s, v, version))),
               err |-> nil]
    ELSE IF fail = "save"
         THEN [b |-> bb, local |-> loc, remote |-> rem, err |-> Error("save image to local dir error")]
         ELSE [b |-> bb,
               local |-> Put(loc, Slash(bb.SourceDir) \o "app_" \o ServiceID(s)
                                    \o "/image_" \o BuildVersion(v) \o ".tar",
                             File(ArtifactSize(version), DeliveredPath(s, v, version))),
               remote |-> rem, err |-> nil]

(***************************************************************************)
(* backupServiceInfo, one iteration of the version loop (lines 227-251).   *)
(***************************************************************************)
\* The sessions open at the end of the log.
OpenSessions(log) ==
    Cardinality({ i \in DOMAIN log : log[i] = "open" })
        - Cardinality({ i \in DOMAIN log : log[i] = "close" })

\* sources.NewSFTPClient and, with the session it returned, PushFile
\* (lines 337-344 and 183-190); PushFile is called whether it fails or not.
pushSession(log, fail) == IF fail = "session" THEN log ELSE log \o <<"open", "push">>

\* A function that returns without closing the session it opened.
deferNothing(log) == log

\* `defer sFTPClient.Close()`, lines 342 and 188: the session the function
\* opened is closed when the function returns.
deferClose(log) == IF OpenSessions(log) > 0 THEN log \o <<"close">> ELSE log

\* A collaborator call: what was called, for which service and item, and
\* what it answered.
Op(o, s, x, r) == [op |-> o, app |-> s, item |-> x, res |-> r]

\* The cap test with > in place of >=.
capReachedLate(count) == count > maxBackupVersionSize

\* `if backupVersionSize >= maxBackupVersionSize { break }`, line 227.
capReached(count) == count >= maxBackupVersionSize

\* The test of line 253 with < in place of ==.
noVersionBackedUpNever(count) == count < 0

\* `if backupVersionSize == 0`, line 253.
noVersionBackedUp(count) == count = 0

\* The count incremented whatever the transfer returned.
transferCountsAlways(e) == 1

\* `if err := b.uploadSlug(...); err != nil {...} else { backupVersionSize++ }`,
\* lines 235-239 and 246-250: the increment of the count.
transferCounts(e) == IF e # nil THEN 0 ELSE 1

\* The test of line 261 with == in place of >.
allDataUndeclared(app) == Len(app.ServiceVolume) = 0

\* `if len(app.ServiceVolume) > 0`, line 261.
allDataDeclared(app) == Len(app.ServiceVolume) > 0

\* The test of line 275 without the directory check.
volumeHasPath(hostPath, dirIsEmpty) == hostPath # ""

\* `if hostPath != "" && !util.DirIsEmpty(hostPath)`, line 275.
volumeHasData(hostPath, dirIsEmpty) == hostPath # "" /\ ~dirIsEmpty

\* The body of the version loop for one version, lines 230-251: the task,
\* the stores, the version's status, the increment of the count and the
\* collaborator calls made.
\* The slug test without the status: any slug version.
isSlugOfAnyStatus(version) == version.DeliveredType = "slug"

\* `version.DeliveredType == "slug" && version.FinalStatus == "success"`, line 230.
isSuccessSlug(version) ==
    version.DeliveredType = "slug" /\ version.FinalStatus = "success"

\* `version.DeliveredType == "image" && version.FinalStatus == "success"`, line 241.
isSuccessImage(version) ==
    version.DeliveredType = "image" /\ version.FinalStatus = "success"

versionStep(bb, loc, rem, s, v, version, probe, fail) ==
    IF isSuccessSlug(version)
    THEN IF ~checkVersionExist(version, probe).ok
         THEN [b |-> bb, local |-> loc, remote |-> rem, status |-> "lost",
               counted |-> 0, ops |-> <<Op("check", s, v, IF checkVersionExist(version, probe).ok THEN "present" ELSE "absent")>>]
         ELSE LET r == uploadSlug(bb, loc, rem, s, v, version, fail) IN
              [b |-> r.b, local |-> r.local, remote |-> r.remote,
               status |-> version.FinalStatus,
               counted |-> transferCounts(r.err),
               ops |-> <<Op("check", s, v, IF checkVersionExist(version, probe).ok THEN "present" ELSE "absent"),
                         Op("uploadSlug", s, v, IF r.err # nil THEN "failed" ELSE "ok")>>]
    ELSE IF isSuccessImage(version)
    THEN IF ~checkVersionExist(version, probe).ok
         THEN [b |-> bb, local |-> loc, remote |-> rem, status |-> "lost",
               counted |-> 0, ops |-> <<Op("check", s, v, IF checkVersionExist(version, probe).ok THEN "present" ELSE "absent")>>]
         ELSE LET r == uploadImage(bb, loc, rem, s, v, version, fail) IN
              [b |-> r.b, local |-> r.local, remote |-> r.remote,
               status |-> version.FinalStatus,
               counted |-> transferCounts(r.err),
               ops |-> <<Op("check", s, v, IF checkVersionExist(version, probe).ok THEN "present" ELSE "absent"),
                         Op("uploadImage", s, v, IF r.err # nil THEN "failed" ELSE "ok")>>]
    ELSE [b |-> bb, local |-> loc, remote |-> rem, status |-> version.FinalStatus,
          counted |-> 0, ops |-> <<>>]

(***************************************************************************)
(* BackupAPPNewCreater, lines 89-101.                                      *)
(***************************************************************************)
\* No worker (a nil TaskWorker, a nil *client.Client).
none == "nil"

\* The task descriptors: bytes that ffjson.Unmarshal decodes into the
\* fields of a BackupAPPNew, or bytes it cannot decode.
DescriptorSet ==
    [decodable : BOOLEAN,
     Mode : {"full-online", "full-offline"},
     FTPHost : {"", "sftp.host"},
     FTPPort : {"", "22"},
     HubURL : {"", "hub.host"},
     SourceDir : {WorkDir, WorkDir \o "/"}]

\* The exectorManager: its DockerClient.
ManagerSet == [DockerClient : {none, "docker"}]

\* A BackupAPPNew as the creater fills it: the decoded fields and the
\* manager's DockerClient.
Worker(in, m) ==
    [Mode |-> in.Mode, FTPHost |-> in.FTPHost, FTPPort |-> in.FTPPort,
     HubURL |-> in.HubURL, SourceDir |-> in.SourceDir, DockerClient |-> m.DockerClient]

\* BackupAPPNewCreater(in, m): the workers it returns (none, or one) and
\* the error it returns.
BackupAPPNewCreater(in, m) ==
    IF ~in.decodable
    THEN [workers |-> {}, err |-> Error("cannot unmarshal into BackupAPPNew")]
    ELSE [workers |-> {Worker(in, m)}, err |-> nil]

\* A component that has not been called: no arguments, no result.
NotCalled == [in |-> none, m |-> none, out |-> none]

(***************************************************************************)
(* State after construction.                                               *)
(***************************************************************************)
MetadataPath(dir) == Slash(dir) \o "region_apps_metadata.json"

Init ==
    /\ b \in TaskSet
    /\ \E w \in WorldSet : metadata = w.metadata /\ sharedData = w.sharedData
    /\ pc = "start"
    /\ judged = [version |-> "", err |-> nil]
    /\ serviceInfos = <<>>
    /\ plugins = 0
    /\ si = 0
    /\ vi = 0
    /\ backupVersionSize = 0
    /\ voli = 0
    /\ pli = 0
    /\ err = nil
    /\ local = IF metadata.readable THEN Put(<<>>, MetadataPath(b.SourceDir), File(1, "metadata")) ELSE <<>>
    /\ remote = <<>>
    /\ probed = "none"
    /\ faults = 0
    /\ sessions = <<>>
    /\ creater = NotCalled
    /\ proxy = NotCalled
    /\ etcd = NotCalled
    /\ ops = <<>>
    /\ record = [Status |-> "starting", SourceDir |-> "", SourceType |-> "", BuckupSize |-> 0]

\* Run returns e.
Return(e) == pc' = "returned" /\ err' = e

\* A collaborator call fails (failed), within the bound on failures.
Fault(failed) ==
    /\ failed => faults < MaxFaults
    /\ faults' = IF failed THEN faults + 1 ELSE faults

(***************************************************************************)
(* Run, lines 132-168: read, classify, decode.                             *)
(***************************************************************************)
Run_ReadMetadata ==
    /\ pc = "start"
    /\ IF metadata.readable
       THEN pc' = "judge" /\ err' = err
       ELSE Return(Error("read region_apps_metadata.json"))
    /\ UNCHANGED <<creater, proxy, etcd, sessions, faults, b, metadata, judged, serviceInfos, plugins, si, vi,
                   backupVersionSize, voli, pli, local, remote, sharedData, probed, ops, record>>

Run_Judge ==
    /\ pc = "judge"
    /\ judged' = judgeMetadataVersion(metadata)
    /\ IF judged'.err # nil
       THEN Return(judged'.err)
       ELSE pc' = "unmarshal" /\ err' = err
    /\ UNCHANGED <<creater, proxy, etcd, sessions, faults, b, metadata, serviceInfos, plugins, si, vi,
                   backupVersionSize, voli, pli, local, remote, sharedData, probed, ops, record>>

Run_UnmarshalOld ==
    /\ pc = "unmarshal"
    /\ judged.version = OldMetadata
    /\ LET d == UnmarshalServiceList(metadata) IN
       IF d.err # nil
       THEN Return(d.err) /\ UNCHANGED <<serviceInfos, si>>
       ELSE /\ serviceInfos' = d.Services
            /\ si' = 1
            /\ pc' = "services"
            /\ err' = err
    /\ UNCHANGED <<creater, proxy, etcd, sessions, faults, b, metadata, judged, plugins, vi, backupVersionSize, voli, pli,
                   local, remote, sharedData, probed, ops, record>>

Run_UnmarshalNew ==
    /\ pc = "unmarshal"
    /\ judged.version # OldMetadata
    /\ LET d == UnmarshalAppSnapshot(metadata) IN
       IF d.err # nil
       THEN Return(d.err) /\ UNCHANGED <<serviceInfos, plugins, si>>
       ELSE /\ serviceInfos' = d.Services
            /\ plugins' = d.PluginBuildVersions
            /\ si' = 1
            /\ pc' = "services"
            /\ err' = err
    /\ UNCHANGED <<creater, proxy, etcd, sessions, faults, b, metadata, judged, vi, backupVersionSize, voli, pli,
                   local, remote, sharedData, probed, ops, record>>

(***************************************************************************)
(* backupServiceInfo, lines 221-285.                                       *)
(***************************************************************************)
\* Loop head of `for _, app := range serviceInfos`: the next service starts.
BSI_Service ==
    /\ pc = "services"
    /\ si <= Len(serviceInfos)
    /\ vi' = 1
    /\ backupVersionSize' = 0
    /\ pc' = "versions"
    /\ UNCHANGED <<creater, proxy, etcd, sessions, faults, b, metadata, judged, serviceInfos, plugins, si, voli, pli, err,
                   local, remote, sharedData, probed, ops, record>>

\* backupServiceInfo returns nil: on to backupPluginInfo (structured
\* metadata) or to the finalization (legacy metadata).
BSI_Return ==
    /\ pc = "services"
    /\ si > Len(serviceInfos)
    /\ IF judged.version = OldMetadata
       THEN pc' = "zip" /\ pli' = pli
       ELSE pc' = "plugins" /\ pli' = 1
    /\ UNCHANGED <<creater, proxy, etcd, sessions, faults, b, metadata, judged, serviceInfos, plugins, si, vi,
                   backupVersionSize, voli, err, local, remote, sharedData, probed, ops, record>>

\* One iteration of `for _, version := range app.Versions`.
BSI_Version ==
    /\ pc = "versions"
    /\ vi <= Len(serviceInfos[si].Versions)
    /\ ~capReached(backupVersionSize)
    /\ \E probe \in Probes, fail \in FailPoints :
         LET r == versionStep(b, local, remote, si, vi,
                              serviceInfos[si].Versions[vi], probe, fail) IN
         /\ b' = r.b
         /\ local' = r.local
         /\ remote' = r.remote
         /\ serviceInfos' = [serviceInfos EXCEPT ![si].Versions[vi].FinalStatus = r.status]
         /\ backupVersionSize' = backupVersionSize + r.counted
         /\ ops' = ops \o r.ops
         /\ probed' = IF r.ops # <<>> THEN probe ELSE probed
         /\ Fault(r.ops # <<>> /\ r.ops[Len(r.ops)].res # "ok")
         /\ sessions' = IF /\ Len(r.ops) = 2
                            /\ r.ops[2].op = "uploadSlug"
                            /\ SlugIsRemote(b)
                         THEN deferClose(pushSession(sessions, fail))
                         ELSE sessions
    /\ vi' = vi + 1
    /\ UNCHANGED <<creater, proxy, etcd, metadata, pc, judged, plugins, si, voli, pli, err, sharedData, record>>

\* The version loop is over (list exhausted or cap reached), lines 253-259.
BSI_VersionsDone ==
    /\ pc = "versions"
    /\ \/ vi > Len(serviceInfos[si].Versions)
       \/ capReached(backupVersionSize)
    /\ IF noVersionBackedUp(backupVersionSize)
       THEN Return([msg |-> "Application Backup build version failure", app |-> si])
       ELSE pc' = "alldata" /\ err' = err
    /\ probed' = "none"
    /\ UNCHANGED <<creater, proxy, etcd, sessions, faults, b, metadata, judged, serviceInfos, plugins, si, vi,
                   backupVersionSize, voli, pli, local, remote, sharedData, ops, record>>

\* path.Join(sharepath, "tenant", TenantID, "service", ServiceID)
ServiceVolumeData(s) == "/grdata/tenant/t/service/" \o ServiceID(s)

\* The all-data bundle under a directory of the service.
allDataDstDirOfService(bb, s) == Slash(bb.SourceDir) \o "data_" \o ServiceID(s) \o "/data.zip"

\* dstDir, line 262: `fmt.Sprintf("%s/data_%s/%s.zip", b.SourceDir, "all", "data")`.
allDataDstDir(bb, s) == Slash(bb.SourceDir) \o "data_all/data.zip"

\* The overall data of the service, lines 261-271.
BSI_AllData ==
    /\ pc = "alldata"
    /\ \E zipFails \in BOOLEAN :
         IF allDataDeclared(serviceInfos[si]) /\ si \in sharedData
         THEN IF zipFails
              THEN /\ Return(Error("zip service volume data"))
                   /\ ops' = ops \o <<Op("zipAll", si, 0, "failed")>>
                   /\ Fault(TRUE)
                   /\ UNCHANGED <<local, voli>>
              ELSE /\ local' = Put(local, allDataDstDir(b, si),
                                   File(1, ServiceVolumeData(si)))
                   /\ ops' = ops \o <<Op("zipAll", si, 0, "ok")>>
                   /\ voli' = 1
                   /\ pc' = "volumes"
                   /\ err' = err
                   /\ Fault(FALSE)
         ELSE /\ voli' = 1
              /\ pc' = "volumes"
              /\ UNCHANGED <<local, ops, err, faults>>
    /\ UNCHANGED <<creater, proxy, etcd, sessions, b, metadata, judged, serviceInfos, plugins, si, vi,
                   backupVersionSize, pli, remote, sharedData, probed, record>>

\* One iteration of `for _, volume := range app.ServiceVolume`, lines 272-281.
BSI_Volume ==
    /\ pc = "volumes"
    /\ voli <= Len(serviceInfos[si].ServiceVolume)
    /\ \E dirIsEmpty \in BOOLEAN, zipFails \in BOOLEAN :
         LET hostPath == serviceInfos[si].ServiceVolume[voli].HostPath
             asked == Op("dirIsEmpty", si, voli, IF dirIsEmpty THEN "empty" ELSE "not empty") IN
         IF volumeHasData(hostPath, dirIsEmpty)
         THEN IF zipFails
              THEN /\ Return(Error("zip volume data"))
                   /\ ops' = ops \o <<asked, Op("zipVolume", si, voli, "failed")>>
                   /\ Fault(TRUE)
                   /\ UNCHANGED <<local, voli>>
              ELSE /\ local' = Put(local, Slash(b.SourceDir) \o "data_" \o ServiceID(si) \o "/"
                                            \o VolumeName(voli) \o ".zip",
                                   File(1, hostPath))
                   /\ ops' = ops \o <<asked, Op("zipVolume", si, voli, "ok")>>
                   /\ voli' = voli + 1
                   /\ UNCHANGED <<pc, err, faults>>
         ELSE /\ voli' = voli + 1
              /\ ops' = IF hostPath # "" THEN ops \o <<asked>> ELSE ops
              /\ UNCHANGED <<local, pc, err, faults>>
    /\ UNCHANGED <<creater, proxy, etcd, sessions, b, metadata, judged, serviceInfos, plugins, si, vi,
                   backupVersionSize, pli, remote, sharedData, probed, record>>

\* The volume loop is over: back to the loop head with the next service.
BSI_VolumesDone ==
    /\ pc = "volumes"
    /\ voli > Len(serviceInfos[si].ServiceVolume)
    /\ si' = si + 1
    /\ pc' = "services"
    /\ UNCHANGED <<creater, proxy, etcd, sessions, faults, b, metadata, judged, serviceInfos, plugins, vi,
                   backupVersionSize, voli, pli, err, local, remote, sharedData, probed, ops, record>>

(***************************************************************************)
(* backupPluginInfo, lines 287-304.                                        *)
(***************************************************************************)
\* The errors of sources.ImagePull and sources.ImageSave dropped.
pluginErrorDropped(fail) == nil

\* `if ...; err != nil { return err }`, lines 292-296 and 297-301: the error
\* backupPluginInfo returns for one plugin build version.
pluginError(fail) ==
    IF fail = "pull" THEN Error("failed to pull plugin image")
    ELSE IF fail = "save" THEN Error("failed to save plugin image")
    ELSE nil

\* One iteration of `for _, pv := range appSnapshot.PluginBuildVersions`.
BPI_Plugin ==
    /\ pc = "plugins"
    /\ pli <= plugins
    /\ \E fail \in {"none", "pull", "save"} :
         /\ Fault(fail # "none")
         /\ ops' = ops \o
                IF fail = "pull"
                THEN <<Op("pullPlugin", 0, pli, "failed")>>
                ELSE <<Op("pullPlugin", 0, pli, "ok"),
                       Op("savePlugin", 0, pli, IF fail = "save" THEN "failed" ELSE "ok")>>
         /\ IF pluginError(fail) # nil
            THEN /\ Return(pluginError(fail))
                 /\ UNCHANGED <<local, pli>>
            ELSE /\ local' = IF fail = "none"
                             THEN Put(local, Slash(b.SourceDir) \o "plugin_" \o PluginID(pli)
                                               \o "/image_deploy.tar",
                                      File(3, "goodrain.me/" \o PluginID(pli)))
                             ELSE local
                 /\ pli' = pli + 1
                 /\ UNCHANGED <<pc, err>>
    /\ UNCHANGED <<creater, proxy, etcd, sessions, b, metadata, judged, serviceInfos, plugins, si, vi,
                   backupVersionSize, voli, remote, sharedData, probed, record>>

BPI_Return ==
    /\ pc = "plugins"
    /\ pli > plugins
    /\ pc' = "zip"
    /\ UNCHANGED <<creater, proxy, etcd, sessions, faults, b, metadata, judged, serviceInfos, plugins, si, vi,
                   backupVersionSize, voli, pli, err, local, remote, sharedData, probed, ops, record>>

(***************************************************************************)
(* Run, lines 170-204: finalization.                                       *)
(***************************************************************************)
\* The source directory as lines 170-172 leave it.
StripSourceDir(dir) ==
    IF HasSuffix(dir, "/") THEN SubSeq(dir, 1, Len(dir) - 2) ELSE dir

\* util.Zip, util.GetFileSize, os.RemoveAll, lines 173-179.
Run_Zip ==
    /\ pc = "zip"
    /\ \E zipFails \in BOOLEAN :
         LET dir == StripSourceDir(b.SourceDir)
             files == FilesUnder(local, dir)
             size == SumOver(local, files) IN
         /\ Fault(zipFails)
         /\ IF zipFails
            THEN /\ b' = [b EXCEPT !.SourceDir = dir]
                 /\ Return(Error("compressed backup metadata failed"))
                 /\ ops' = ops \o <<Op("zip", 0, 0, "failed")>>
                 /\ UNCHANGED local
            ELSE /\ b' = [b EXCEPT !.SourceDir = dir \o ".zip", !.BackupSize = @ + size]
                 /\ local' = Put(Drop(local, files), dir \o ".zip", File(size, dir))
                 /\ ops' = ops \o <<Op("zip", 0, 0, "ok")>>
                 /\ pc' = "push"
                 /\ err' = err
    /\ UNCHANGED <<creater, proxy, etcd, sessions, metadata, judged, serviceInfos, plugins, si, vi,
                   backupVersionSize, voli, pli, remote, sharedData, probed, record>>

\* Upload of the zip to the sftp server, lines 181-199.
Run_Push ==
    /\ pc = "push"
    /\ IF SlugIsRemote(b)
       THEN \E fail \in {"none", "session", "push"} :
              /\ Fault(fail # "none")
              /\ IF fail = "session"
                 THEN /\ Return(Error("create ftp client error"))
                      /\ UNCHANGED <<b, local, remote, ops, sessions>>
                 ELSE IF fail = "push"
                 THEN /\ Return(Error("push slug file to sftp server error"))
                      /\ ops' = ops \o <<Op("pushZip", 0, 0, "failed")>>
                      /\ sessions' = deferClose(pushSession(sessions, fail))
                      /\ UNCHANGED <<b, local, remote>>
                 ELSE LET dstDir == "ns/backup/group_version/metadata_data.zip" IN
                      /\ remote' = Put(remote, dstDir, local[b.SourceDir])
                      /\ local' = Drop(local, {b.SourceDir})
                      /\ b' = [b EXCEPT !.SourceDir = dstDir, !.SourceType = "sftp"]
                      /\ ops' = ops \o <<Op("pushZip", 0, 0, "ok")>>
                      /\ sessions' = pushSession(sessions, fail)
                      /\ pc' = "status"
                      /\ err' = err
       ELSE /\ pc' = "status"
            /\ UNCHANGED <<b, local, remote, ops, err, faults, sessions>>
    /\ UNCHANGED <<creater, proxy, etcd, metadata, judged, serviceInfos, plugins, si, vi,
                   backupVersionSize, voli, pli, sharedData, probed, record>>

\* The record written and no error returned whatever the status store did.
updateBackupStatuBlind(bb, rec, status, fail) ==
    [record |-> [Status |-> status, SourceDir |-> bb.SourceDir,
                 SourceType |-> bb.SourceType, BuckupSize |-> bb.BackupSize],
     err |-> nil]

\* updateBackupStatu, lines 425-436: the record afterwards and the error.
updateBackupStatu(bb, rec, status, fail) ==
    IF fail = "get"
    THEN [record |-> rec, err |-> Error("get app backup")]
    ELSE IF fail = "update"
    THEN [record |-> rec, err |-> Error("update app backup")]
    ELSE [record |-> [Status |-> status, SourceDir |-> bb.SourceDir,
                      SourceType |-> bb.SourceType, BuckupSize |-> bb.BackupSize],
          err |-> nil]

\* Lines 200-203.
Run_UpdateStatus ==
    /\ pc = "status"
    /\ \E fail \in {"none", "get", "update"} :
         LET r == updateBackupStatu(b, record, "success", fail) IN
         /\ Fault(fail # "none")
         /\ record' = r.record
         /\ Return(r.err)
    /\ sessions' = deferClose(sessions)
    /\ UNCHANGED <<creater, proxy, etcd, b, metadata, judged, serviceInfos, plugins, si, vi,
                   backupVersionSize, voli, pli, local, remote, sharedData, probed, ops>>

\* The scheduler reports the failure of Run, lines 416-423.
ErrorCallBack ==
    /\ pc = "returned"
    /\ err # nil
    /\ \E fail \in {"none", "get", "update"} :
         /\ Fault(fail # "none")
         /\ record' = updateBackupStatu(b, record, "failed", fail).record
    /\ pc' = "called back"
    /\ UNCHANGED <<creater, proxy, etcd, sessions, b, metadata, judged, serviceInfos, plugins, si, vi,
                   backupVersionSize, voli, pli, err, local, remote, sharedData, probed, ops>>

Next ==
    \/ Run_ReadMetadata
    \/ Run_Judge
    \/ Run_UnmarshalOld
    \/ Run_UnmarshalNew
    \/ BSI_Service
    \/ BSI_Return
    \/ BSI_Version
    \/ BSI_VersionsDone
    \/ BSI_AllData
    \/ BSI_Volume
    \/ BSI_VolumesDone
    \/ BPI_Plugin
    \/ BPI_Return
    \/ Run_Zip
    \/ Run_Push
    \/ Run_UpdateStatus
    \/ ErrorCallBack

Spec == Init /\ [][Next]_vars

(***************************************************************************)
(* Properties.                                                             *)
(***************************************************************************)
Returned == pc \in {"returned", "called back"}

\* judgeMetadataVersion has been applied to the metadata.
Judged == metadata.readable /\ pc \notin {"start", "judge"}

DecodesAsStructured == UnmarshalAppSnapshot(metadata).err = nil
DecodesAsLegacy == UnmarshalServiceList(metadata).err = nil

\* C1: judgeMetadataVersion returns NewMetadata and no error for a blob that
\* decodes as the structured schema, OldMetadata and no error for a blob
\* that decodes only as the legacy flat list, and an error for a blob that
\* decodes as neither.
C1_JudgeClassifies ==
    Judged =>
        /\ DecodesAsStructured => judged = [version |-> NewMetadata, err |-> nil]
        /\ (~DecodesAsStructured /\ DecodesAsLegacy)
               => judged = [version |-> OldMetadata, err |-> nil]
        /\ (~DecodesAsStructured /\ ~DecodesAsLegacy) => judged.err # nil

\* Run handed the service snapshots of the metadata to backupServiceInfo.
HandedToBackupServiceInfo ==
    /\ pc \notin {"start", "judge", "unmarshal"}
    /\ ~(Returned /\ err \in {UnmarshalAppSnapshot(metadata).err,
                              UnmarshalServiceList(metadata).err} \ {nil})

\* C2: with a valid legacy flat list as metadata, Run hands the service
\* snapshots to backupServiceInfo, never runs backupPluginInfo and never
\* fails because of the format of the metadata.
C2_LegacyIsBackedUp ==
    (metadata.readable /\ ~DecodesAsStructured /\ DecodesAsLegacy) =>
        /\ Returned => HandedToBackupServiceInfo
        /\ pc # "plugins"
        /\ \A i \in DOMAIN ops : ops[i].op \notin {"pullPlugin", "savePlugin"}

UploadOps == {"uploadSlug", "uploadImage"}

\* The existence of version v of service s has been checked.
Checked(s, v) ==
    \E i \in DOMAIN ops : ops[i].op = "check" /\ ops[i].app = s /\ ops[i].item = v

\* The transfer of version v of service s has been attempted.
Attempted(s, v) ==
    \E i \in DOMAIN ops : ops[i].op \in UploadOps /\ ops[i].app = s /\ ops[i].item = v

\* Version v of service s has been transferred without error.
Transferred(s, v) ==
    \E i \in DOMAIN ops : /\ ops[i].op \in UploadOps /\ ops[i].app = s
                          /\ ops[i].item = v /\ ops[i].res = "ok"

\* The versions of service s transferred so far.
TransferredOf(s) == { v \in 1..Len(serviceInfos[s].Versions) : Transferred(s, v) }

\* Version v of service s is as the metadata declared it.
Untouched(s, v) ==
    /\ ~Checked(s, v)
    /\ ~Attempted(s, v)
    /\ serviceInfos[s].Versions[v] = metadata.services[s].Versions[v]

\* backupServiceInfo is inside the body of the loop for service s.
InService(s) == pc \in {"versions", "alldata", "volumes"} /\ si = s

\* The existence checks and the transfers, in the order they were made.
IsVersionOp(o) == o.op \in UploadOps \cup {"check"}
VersionOps == SelectSeq(ops, IsVersionOp)

\* C3: in backupServiceInfo the number of versions counted as transferred is
\* at most maxBackupVersionSize for every service at every point of the
\* version loop, the versions are visited in declared order, and once the
\* count equals the cap no later version of the service is
\* existence-checked, transferred or modified.
C3_CapBoundsTransfers ==
    /\ backupVersionSize <= maxBackupVersionSize
    /\ \A s \in DOMAIN serviceInfos :
         /\ Cardinality(TransferredOf(s)) <= maxBackupVersionSize
         /\ InService(s) => backupVersionSize = Cardinality(TransferredOf(s))
         /\ \A v \in DOMAIN serviceInfos[s].Versions :
              Cardinality({ w \in TransferredOf(s) : w < v }) = maxBackupVersionSize
                  => Untouched(s, v)
    /\ \A i \in 1..(Len(VersionOps) - 1) :
         \/ VersionOps[i].app < VersionOps[i + 1].app
         \/ /\ VersionOps[i].app = VersionOps[i + 1].app
            /\ VersionOps[i].item <= VersionOps[i + 1].item

\* The cap is reached while a version that could be backed up is left.
C3_Witness ==
    /\ pc = "alldata"
    /\ backupVersionSize = maxBackupVersionSize
    /\ vi <= Len(serviceInfos[si].Versions)
    /\ serviceInfos[si].Versions[vi].FinalStatus = "success"
    /\ serviceInfos[si].Versions[vi].DeliveredType \in {"slug", "image"}

\* The version loop of service s is over.
LoopDone(s) ==
    /\ s \in DOMAIN serviceInfos
    /\ \/ si > s
       \/ si = s /\ pc \notin {"services", "versions"}

\* The versions the metadata declares for service s with status success.
DeclaredSuccess(s) ==
    { v \in DOMAIN metadata.services[s].Versions :
        metadata.services[s].Versions[v].FinalStatus = "success" }

\* C4 as stated: for a service declaring N > cap versions with final status
\* success, exactly cap versions are transferred and counted, and the
\* remaining versions are never attempted and never marked lost.
C4_ExactlyCap ==
    \A s \in DOMAIN serviceInfos :
        (LoopDone(s) /\ Cardinality(DeclaredSuccess(s)) > maxBackupVersionSize) =>
            /\ Cardinality(TransferredOf(s)) = maxBackupVersionSize
            /\ \A v \in DeclaredSuccess(s) \ TransferredOf(s) : Untouched(s, v)

\* C4 amended: for a service declaring N > cap versions with final status
\* success, at most cap versions are transferred and counted; exactly cap
\* are, and the remaining versions are never attempted and never marked
\* lost, when the first cap declared versions are all transferred without
\* error; in general no version after the one that brought the count to
\* cap is attempted or marked lost.
C4_AtMostCap ==
    \A s \in DOMAIN serviceInfos :
        (LoopDone(s) /\ Cardinality(DeclaredSuccess(s)) > maxBackupVersionSize) =>
            /\ Cardinality(TransferredOf(s)) <= maxBackupVersionSize
            /\ (\A v \in 1..maxBackupVersionSize : Transferred(s, v)) =>
                   /\ TransferredOf(s) = 1..maxBackupVersionSize
                   /\ \A v \in DOMAIN serviceInfos[s].Versions :
                        v > maxBackupVersionSize => Untouched(s, v)
            /\ Cardinality(TransferredOf(s)) = maxBackupVersionSize =>
                   \A v \in DOMAIN serviceInfos[s].Versions :
                        (\A w \in TransferredOf(s) : w < v) =>
                            /\ Untouched(s, v)
                            /\ serviceInfos[s].Versions[v].FinalStatus # "lost"

\* A service with more than cap success versions had its first cap versions
\* transferred and a further slug or image version left as declared.
C4_Witness ==
    \E s \in DOMAIN serviceInfos :
        /\ LoopDone(s)
        /\ Cardinality(DeclaredSuccess(s)) > maxBackupVersionSize
        /\ TransferredOf(s) = 1..maxBackupVersionSize
        /\ \E v \in DOMAIN serviceInfos[s].Versions :
             /\ v > maxBackupVersionSize
             /\ serviceInfos[s].Versions[v].FinalStatus = "success"
             /\ serviceInfos[s].Versions[v].DeliveredType \in {"slug", "image"}

\* Version v of service s as the metadata declares it can be backed up.
Eligible(s, v) ==
    /\ metadata.services[s].Versions[v].FinalStatus = "success"
    /\ metadata.services[s].Versions[v].DeliveredType \in {"slug", "image"}

\* This step ran the existence check of the current version and the check
\* reported the artifact missing or failed.
CheckFoundNothing ==
    /\ pc = "versions"
    /\ Len(ops') > Len(ops)
    /\ probed' \in {"missing", "error"}

\* C5: a version of kind slug or image with status success whose existence
\* check reports it missing (or fails) gets status lost, is not transferred,
\* does not increase the count and does not abort the service: the loop goes
\* on with the next version, every version that can be backed up is visited
\* while the cap is not reached, and the version loop makes Run return only
\* when it is over with a count of zero.
C5_LostIsSkipped ==
    /\ [][CheckFoundNothing =>
             /\ Eligible(si, vi)
             /\ serviceInfos'[si].Versions[vi].FinalStatus = "lost"
             /\ ops' = ops \o <<Op("check", si, vi, "absent")>>
             /\ UNCHANGED <<b, local, remote, backupVersionSize, si, err>>
             /\ pc' = "versions"
             /\ vi' = vi + 1]_vars
    /\ [][(pc = "versions" /\ pc' = "returned") =>
             /\ backupVersionSize = 0
             /\ TransferredOf(si) = {}
             /\ vi > Len(serviceInfos[si].Versions)]_vars
    /\ [](\A s \in DOMAIN serviceInfos :
            (LoopDone(s) /\ Cardinality(TransferredOf(s)) < maxBackupVersionSize) =>
                \A v \in DOMAIN serviceInfos[s].Versions :
                    /\ Eligible(s, v) => Checked(s, v)
                    /\ serviceInfos[s].Versions[v].FinalStatus = "lost" => ~Attempted(s, v))

\* A version was lost to a failed check after an earlier one of the same
\* service was reported missing and a later one was transferred.
C5_Witness ==
    /\ pc = "versions"
    /\ probed = "error"
    /\ vi > 3
    /\ serviceInfos[si].Versions[vi - 1].FinalStatus = "lost"
    /\ ~Attempted(si, vi - 1)
    /\ \E v \in 1..(vi - 3) :
         /\ serviceInfos[si].Versions[v].FinalStatus = "lost"
         /\ Checked(si, v)
         /\ \E w \in (v + 1)..(vi - 2) : Transferred(si, w)

\* The error backupServiceInfo returns for service s at line 255.
NoVersionError(s) == [msg |-> "Application Backup build version failure", app |-> s]

\* The version loop of the current service is over and none of its
\* versions was transferred.
NothingTransferred ==
    /\ pc = "versions"
    /\ \/ vi > Len(serviceInfos[si].Versions)
       \/ Cardinality(TransferredOf(si)) >= maxBackupVersionSize
    /\ TransferredOf(si) = {}

\* No collaborator was called for service s or a later one, but for the
\* versions of s.
NothingBeyondVersionsOf(s) ==
    /\ \A i \in DOMAIN ops :
         /\ ops[i].app <= s
         /\ ops[i].app = s => ops[i].op \in UploadOps \cup {"check"}
         /\ ops[i].op \notin {"pullPlugin", "savePlugin", "zip", "pushZip"}
    /\ \A t \in DOMAIN serviceInfos :
         t > s => serviceInfos[t] = metadata.services[t]

\* C6: if after a service's version loop no version of that service was
\* transferred (every version lost or failed), backupServiceInfo returns an
\* error that names that service, Run returns that error, and no later
\* service is existence-checked, transferred or has its volumes archived.
C6_ZeroTransfersAbort ==
    /\ [][NothingTransferred =>
             /\ pc' = "returned"
             /\ err' = NoVersionError(si)
             /\ UNCHANGED <<b, local, remote, ops, serviceInfos, si>>]_vars
    /\ [][Returned => UNCHANGED <<b, local, remote, ops, serviceInfos, si, err>>]_vars
    /\ [](\A s \in DOMAIN serviceInfos :
            (Returned /\ err = NoVersionError(s)) =>
                /\ si = s
                /\ TransferredOf(s) = {}
                /\ \A v \in DOMAIN serviceInfos[s].Versions :
                     Eligible(s, v) =>
                         \/ serviceInfos[s].Versions[v].FinalStatus = "lost"
                         \/ Attempted(s, v) /\ ~Transferred(s, v)
                /\ NothingBeyondVersionsOf(s))

\* Run returned the error naming the first service, whose only version
\* failed in transfer, and the second service has a version to back up.
C6_Witness ==
    /\ Returned
    /\ err = NoVersionError(1)
    /\ Len(serviceInfos) > 1
    /\ Attempted(1, 1)
    /\ Len(serviceInfos[2].Versions) > 0
    /\ Eligible(2, 1)
    /\ Untouched(2, 1)

\* This step ran the transfer of the current version and the transfer
\* returned an error.
TransferFailed ==
    /\ pc = "versions"
    /\ Len(ops') = Len(ops) + 2
    /\ ops'[Len(ops')].op \in UploadOps
    /\ ops'[Len(ops')].res = "failed"

\* This step went over the current version, leaving all but the log of
\* collaborator calls as a version that is not backed up leaves it.
SkippedOver ==
    /\ pc' = "versions"
    /\ vi' = vi + 1
    /\ UNCHANGED <<b, local, remote, serviceInfos, backupVersionSize, si, err, record>>

\* C7: when the transfer of a version (uploadSlug or uploadImage) returns an
\* error, backupServiceInfo does not return at that point: the version is
\* excluded from the count, its status is not changed to lost, and the next
\* version of the same service is processed as if the failed one had been
\* skipped.
C7_TransferFailureIsSoft ==
    /\ [][TransferFailed =>
             /\ SkippedOver
             /\ serviceInfos'[si].Versions[vi].FinalStatus = "success"
             /\ ops'[Len(ops')].app = si /\ ops'[Len(ops')].item = vi]_vars
    /\ [](\A s \in DOMAIN serviceInfos : \A v \in DOMAIN serviceInfos[s].Versions :
            (Attempted(s, v) /\ ~Transferred(s, v)) =>
                /\ serviceInfos[s].Versions[v].FinalStatus = "success"
                /\ v \notin TransferredOf(s)
                /\ (InService(s) /\ pc = "versions") =>
                       backupVersionSize = Cardinality(TransferredOf(s))
                /\ (/\ LoopDone(s)
                    /\ v < Len(serviceInfos[s].Versions)
                    /\ Eligible(s, v + 1)
                    /\ Cardinality({ w \in TransferredOf(s) : w < v })
                           < maxBackupVersionSize) => Checked(s, v + 1))

\* A transfer failed and the next version of the service was transferred.
C7_Witness ==
    \E s \in DOMAIN serviceInfos : \E v \in DOMAIN serviceInfos[s].Versions :
        /\ Attempted(s, v)
        /\ ~Transferred(s, v)
        /\ v < Len(serviceInfos[s].Versions)
        /\ Transferred(s, v + 1)
        /\ pc = "alldata"

\* The all-data bundles made for service s.
AllDataBundles(s) ==
    { i \in DOMAIN ops : ops[i].op = "zipAll" /\ ops[i].app = s /\ ops[i].res = "ok" }

\* backupServiceInfo is past the all-data step of service s.
AllDataDone(s) ==
    /\ s \in DOMAIN serviceInfos
    /\ ~Returned
    /\ \/ si > s
       \/ si = s /\ pc = "volumes"

AllDataPath == Slash(b.SourceDir) \o "data_all/data.zip"

Archived(s, k) ==
    \E i \in DOMAIN ops : /\ ops[i].op = "zipVolume" /\ ops[i].app = s
                          /\ ops[i].item = k /\ ops[i].res = "ok"

\* util.DirIsEmpty was asked about volume k of service s.
AskedEmpty(s, k) ==
    \E i \in DOMAIN ops : ops[i].op = "dirIsEmpty" /\ ops[i].app = s /\ ops[i].item = k

\* util.DirIsEmpty answered that volume k of service s is not empty.
FoundNotEmpty(s, k) ==
    \E i \in DOMAIN ops : /\ ops[i].op = "dirIsEmpty" /\ ops[i].app = s
                          /\ ops[i].item = k /\ ops[i].res = "not empty"

\* backupServiceInfo is past volume k of service s.
VolumeDone(s, k) ==
    /\ ~Returned
    /\ \/ si > s
       \/ si = s /\ pc = "volumes" /\ voli > k

VolumePath(s, k) ==
    Slash(b.SourceDir) \o "data_" \o ServiceID(s) \o "/" \o VolumeName(k) \o ".zip"

\* This step ran util.Zip on the shared data or on a volume and it failed.
ArchiveFailed ==
    /\ pc \in {"alldata", "volumes"}
    /\ ops' # ops
    /\ ops'[Len(ops')].res = "failed"

ArchiveErrors == { Error("zip service volume data"), Error("zip volume data") }

\* C9: for each explicitly declared volume a separate bundle is archived if
\* and only if its host path is non-empty and is not an empty directory; a
\* failure of any volume archive (all-data or per-volume) is a hard failure:
\* backupServiceInfo returns that error at once, Run fails, and no later
\* volume or service is processed.
C9_VolumeBundles ==
    /\ [](\A s \in DOMAIN serviceInfos : \A k \in DOMAIN serviceInfos[s].ServiceVolume :
            VolumeDone(s, k) =>
                /\ Archived(s, k) <=>
                       /\ serviceInfos[s].ServiceVolume[k].HostPath # ""
                       /\ FoundNotEmpty(s, k)
                /\ AskedEmpty(s, k) <=> serviceInfos[s].ServiceVolume[k].HostPath # ""
                /\ (Archived(s, k) /\ pc \notin {"push", "status"}) =>
                       /\ VolumePath(s, k) \in DOMAIN local
                       /\ local[VolumePath(s, k)].src =
                              serviceInfos[s].ServiceVolume[k].HostPath)
    /\ [][ArchiveFailed =>
             /\ pc' = "returned"
             /\ err' \in ArchiveErrors
             /\ UNCHANGED <<b, local, remote, si, voli, record>>]_vars
    /\ [](\A i \in DOMAIN ops :
            (ops[i].op \in {"zipAll", "zipVolume"} /\ ops[i].res = "failed") =>
                /\ i = Len(ops)
                /\ Returned
                /\ err \in ArchiveErrors
                /\ si = ops[i].app
                /\ record.Status # "success"
                /\ \A k \in DOMAIN serviceInfos[si].ServiceVolume :
                     (ops[i].op = "zipAll" \/ k > ops[i].item) =>
                         ~AskedEmpty(si, k) /\ ~Archived(si, k))

\* The first volume was archived, the archive of the second failed and Run
\* returned with a third volume that has a host path left.
C9_Witness ==
    /\ Returned
    /\ err = Error("zip volume data")
    /\ Archived(si, 1)
    /\ ops[Len(ops)] = Op("zipVolume", si, 2, "failed")
    /\ Len(serviceInfos[si].ServiceVolume) > 2
    /\ serviceInfos[si].ServiceVolume[3].HostPath # ""

\* Run completed successfully.
Succeeded == pc = "returned" /\ err = nil

\* The versions transferred, as pairs of service and version.
TransferredPairs ==
    { p \in UNION { { <<s, v>> : v \in DOMAIN serviceInfos[s].Versions } :
                    s \in DOMAIN serviceInfos } : Transferred(p[1], p[2]) }

\* The version of pair p went to the sftp server or to the image hub.
Pushed(p) ==
    IF serviceInfos[p[1]].Versions[p[2]].DeliveredType = "slug"
    THEN SlugIsRemote(b) ELSE ImageIsRemote(b)

\* The size each transfer of a set of pairs moved.
SizesOf(ps) == [p \in ps |-> [size |-> ArtifactSize(serviceInfos[p[1]].Versions[p[2]])]]

PushedPairs == { p \in TransferredPairs : Pushed(p) }
CopiedPairs == { p \in TransferredPairs : ~Pushed(p) }

\* The final archive, where Run left it.
FinalArchive == IF b.SourceType = "sftp" THEN remote[b.SourceDir] ELSE local[b.SourceDir]

\* The size of what the source directory holds besides the copied
\* artifacts: the metadata file, the data bundles and the plugin images.
OtherFilesSize ==
    1 + Cardinality({ i \in DOMAIN ops : ops[i].op = "zipVolume" /\ ops[i].res = "ok" })
      + (IF \E i \in DOMAIN ops : ops[i].op = "zipAll" /\ ops[i].res = "ok" THEN 1 ELSE 0)
      + 3 * Cardinality({ i \in DOMAIN ops : ops[i].op = "savePlugin" /\ ops[i].res = "ok" })

\* C10: when Run completes successfully, the accumulated BackupSize equals
\* the sum of the reported sizes of every individually transferred artifact
\* plus the size of the final archive, each counted exactly once: a pushed
\* artifact by the size its push reported, a copied one within the archive
\* (when the archive is that of the directory the copies were written to);
\* artifacts whose transfer failed or that were marked lost contribute
\* nothing.
C10_SizeAccounting ==
    Succeeded =>
        /\ b.BackupSize = SumOver(SizesOf(PushedPairs), PushedPairs) + FinalArchive.size
        /\ FinalArchive.src = WorkDir =>
               /\ FinalArchive.size =
                      SumOver(SizesOf(CopiedPairs), CopiedPairs) + OtherFilesSize
               /\ b.BackupSize =
                      SumOver(SizesOf(TransferredPairs), TransferredPairs) + OtherFilesSize
        /\ record.BuckupSize = b.BackupSize

\* Run succeeded after one version was lost, the transfer of one failed and
\* one was pushed to the remote side.
C10_Witness ==
    /\ Succeeded
    /\ PushedPairs # {}
    /\ \E s \in DOMAIN serviceInfos : \E v, w \in DOMAIN serviceInfos[s].Versions :
         /\ serviceInfos[s].Versions[v].FinalStatus = "lost"
         /\ Attempted(s, w) /\ ~Transferred(s, w)

\* util.Zip was called by Run.
ZipTried == \E i \in DOMAIN ops : ops[i].op = "zip"

\* util.Zip has made the archive and Run has not pushed it yet.
Zipped == pc = "push"

\* C11: at finalization, if the source-directory path ends with a separator
\* exactly that one trailing separator is stripped (a path without one is
\* left unchanged), so the directory that is zipped and then deleted is the
\* directory the metadata was read from and the artifacts were written to,
\* and the archive is named {sourceDir}.zip.
C11_ZipsTheSourceDir ==
    /\ (ZipTried /\ b.SourceType # "sftp") => b.SourceDir \in {WorkDir, WorkDir \o ".zip"}
    /\ Zipped =>
           /\ b.SourceDir = WorkDir \o ".zip"
           /\ b.SourceDir \in DOMAIN local
           /\ local[b.SourceDir].src = WorkDir
           /\ FilesUnder(local, WorkDir) = {}

\* The number of sessions opened so far.
Opened == Cardinality({ i \in DOMAIN sessions : sessions[i] = "open" })

\* The files PushFile has put on the sftp server.
PushedFiles ==
    { i \in DOMAIN ops :
        /\ ops[i].res = "ok"
        /\ \/ ops[i].op = "pushZip"
           \/ ops[i].op = "uploadSlug" /\ SlugIsRemote(b) }

\* C17: every remote-transfer session that is successfully opened (in
\* uploadSlug or in Run's final push) is used for exactly one PushFile and
\* is closed on every exit path, whether the push succeeds or fails; no
\* session is left open when Run has returned, and at most one session is
\* open at any time.
C17_SessionsAreScoped ==
    /\ \A i \in DOMAIN sessions :
         /\ sessions[i] = "open" =>
                i < Len(sessions) /\ sessions[i + 1] = "push"
         /\ sessions[i] = "push" =>
                /\ i > 1 /\ sessions[i - 1] = "open"
                /\ i < Len(sessions) => sessions[i + 1] = "close"
         /\ sessions[i] = "close" => i > 1 /\ sessions[i - 1] = "push"
    /\ \A k \in 0..Len(sessions) : OpenSessions(SubSeq(sessions, 1, k)) \in {0, 1}
    /\ Returned => OpenSessions(sessions) = 0
    /\ OpenSessions(sessions) = 1 => pc = "status"
    /\ Opened >= Cardinality(PushedFiles)
    /\ ~SlugIsRemote(b) => sessions = <<>>

\* Two slug files were pushed, the final push failed and Run returned.
C17_Witness ==
    /\ Returned
    /\ err = Error("push slug file to sftp server error")
    /\ ops[Len(ops)] = Op("pushZip", 0, 0, "failed")
    /\ Opened = 3
    /\ Cardinality(PushedFiles) = 2

\* The collaborator calls of kind o that were made and did not fail.
Done(o) == { i \in DOMAIN ops : ops[i].op = o /\ ops[i].res = "ok" }

\* The steps after the version loops: archives, plugin images, zip, push.
HardOps == {"zipAll", "zipVolume", "pullPlugin", "savePlugin", "zip", "pushZip"}

\* Mode is remote and the transfer host and port are configured.
RemoteConfigured == b.Mode = "full-online" /\ b.FTPHost # "" /\ b.FTPPort # ""

\* C12: status success is persisted only after every service of the
\* snapshot had at least one version transferred, every volume archive and
\* (for structured metadata) every plugin image export succeeded, the zip
\* was created and, in remote mode with transfer credentials, the zip was
\* pushed; in no execution is success persisted after any of these steps
\* failed.
C12_SuccessOnlyAfterAll ==
    /\ record.Status = "success" =>
           /\ pc = "returned" /\ err = nil
           /\ Len(serviceInfos) = Len(metadata.services)
           /\ \A s \in DOMAIN metadata.services : TransferredOf(s) # {}
           /\ \A i \in DOMAIN ops : ops[i].op \in HardOps => ops[i].res = "ok"
           /\ metadata.kind = "structured" =>
                  Cardinality(Done("savePlugin")) = metadata.plugins
           /\ Cardinality(Done("zip")) = 1
           /\ RemoteConfigured =>
                  /\ Cardinality(Done("pushZip")) = 1
                  /\ b.SourceDir \in DOMAIN remote
    /\ (Returned /\ err # nil) => record.Status # "success"

\* Success was persisted for two services and a pushed zip.
C12_Witness ==
    /\ record.Status = "success"
    /\ RemoteConfigured
    /\ Len(serviceInfos) = 2
    /\ Cardinality(Done("pushZip")) = 1

\* The record updateBackupStatu writes for a status.
RecordOf(status) ==
    [Status |-> status, SourceDir |-> b.SourceDir,
     SourceType |-> b.SourceType, BuckupSize |-> b.BackupSize]

\* The scheduler calls ErrorCallBack with the error Run returned.
CalledBack == pc = "returned" /\ pc' = "called back"

\* The snapshot is one service whose only version is an image of status
\* success, and the task is in remote mode with transfer credentials.
SoleImageVersion ==
    /\ RemoteConfigured
    /\ Len(metadata.services) = 1
    /\ Len(metadata.services[1].Versions) = 1
    /\ metadata.services[1].Versions[1] =
           [DeliveredType |-> "image", FinalStatus |-> "success"]

\* C13 as stated: whenever Run returns a non-nil error and the scheduler
\* then calls ErrorCallBack with it, the persisted backup record ends with
\* status failed.
C13_CallbackPersistsFailed == pc = "called back" => record.Status = "failed"

\* C13 amended: whenever Run returns a non-nil error and the scheduler then
\* calls ErrorCallBack with it, the persisted record never shows success; it
\* ends with status failed (and the task's location, kind and size) when
\* the status store answers the callback's read and update, and is left as
\* it was when either fails.  In remote mode a sole success image version
\* whose manifest fetch fails becomes lost and the task fails naming the
\* service.
C13_CallbackPersistsFailedIfStored ==
    /\ [][CalledBack =>
             /\ err # nil
             /\ record' = IF faults' = faults THEN RecordOf("failed") ELSE record
             /\ UNCHANGED <<b, err, local, remote, ops>>]_vars
    /\ []((Returned /\ err # nil) => record.Status \in {"starting", "failed"})
    /\ [](pc = "called back" => err # nil)
    /\ []((SoleImageVersion /\ serviceInfos # <<>>) =>
              /\ (pc = "versions" /\ probed \in {"missing", "error"}) =>
                     serviceInfos[1].Versions[1].FinalStatus = "lost"
              /\ (Returned /\ serviceInfos[1].Versions[1].FinalStatus = "lost") =>
                     err = NoVersionError(1))

\* The manifest fetch of the sole image version failed, Run returned the
\* error naming the service and the callback persisted failed.
C13_Witness ==
    /\ pc = "called back"
    /\ SoleImageVersion
    /\ serviceInfos # <<>>
    /\ serviceInfos[1].Versions[1].FinalStatus = "lost"
    /\ err = NoVersionError(1)
    /\ record = RecordOf("failed")

StoreErrors == { Error("get app backup"), Error("update app backup") }

\* C14: if the status store fails (on read or on update) when Run persists
\* success, Run returns that error instead of nil and the stored record does
\* not show status success; Run returns nil only if the success record was
\* written.
C14_PersistFailureIsReturned ==
    /\ [][(pc = "status" /\ faults' # faults) =>
             /\ pc' = "returned"
             /\ err' \in StoreErrors
             /\ record' = record
             /\ record'.Status # "success"]_vars
    /\ []((pc = "returned" /\ err = nil) => record = RecordOf("success"))
    /\ [](err \in StoreErrors => record.Status # "success")

\* The update of the record failed after the zip was made, and Run
\* returned the error.
C14_Witness ==
    /\ pc = "returned"
    /\ err = Error("update app backup")
    /\ record.Status = "starting"
    /\ Cardinality(Done("zip")) = 1

\* {namespace}/backup/{group}_{version}/metadata_data.zip
MetadataZipPath == "ns/backup/group_version/metadata_data.zip"

PushErrors == { Error("create ftp client error"), Error("push slug file to sftp server error") }

\* C15: when mode is remote (full-online) and the transfer host and port
\* are configured, finalization pushes the zip to
\* {namespace}/backup/{group}_{version}/metadata_data.zip, deletes the local
\* zip and sets the persisted location to that remote path and the kind to
\* sftp; if the push (or session creation) fails, Run returns the error,
\* the local zip is not deleted and location/kind are not repointed to
\* remote; in every other configuration the location is the local zip and
\* the kind is unchanged.
C15_FinalPush ==
    /\ [][(pc = "push" /\ pc' # pc) =>
             IF RemoteConfigured
             THEN IF faults' = faults
                  THEN /\ pc' = "status"
                       /\ remote' = Put(remote, MetadataZipPath, local[b.SourceDir])
                       /\ local' = Drop(local, {b.SourceDir})
                       /\ b' = [b EXCEPT !.SourceDir = MetadataZipPath,
                                         !.SourceType = "sftp"]
                  ELSE /\ pc' = "returned"
                       /\ err' \in PushErrors
                       /\ b.SourceDir \in DOMAIN local'
                       /\ UNCHANGED <<b, local, remote, record>>
             ELSE /\ pc' = "status"
                  /\ UNCHANGED <<b, local, remote, record, ops, sessions>>]_vars
    /\ [](record.Status = "success" =>
            IF RemoteConfigured
            THEN /\ record.SourceDir = MetadataZipPath
                 /\ record.SourceType = "sftp"
                 /\ MetadataZipPath \in DOMAIN remote
                 /\ \A x \in DOMAIN local : ~HasSuffix(x, ".zip") \/ HasPrefix(x, Slash(WorkDir))
            ELSE /\ record.SourceDir \in DOMAIN local
                 /\ HasSuffix(record.SourceDir, ".zip")
                 /\ record.SourceType = "local"
                 /\ MetadataZipPath \notin DOMAIN remote)
    /\ [](err \in PushErrors =>
            /\ b.SourceType = "local"
            /\ record.SourceType # "sftp"
            /\ MetadataZipPath \notin DOMAIN remote)

\* The push of the zip failed: Run returned the error and the local zip is
\* where it was made.
C15_Witness ==
    /\ pc = "returned"
    /\ err = Error("push slug file to sftp server error")
    /\ b.SourceDir = WorkDir \o ".zip"
    /\ b.SourceDir \in DOMAIN local
    /\ b.SourceType = "local"

PluginOps == {"pullPlugin", "savePlugin"}

PluginErrors == { Error("failed to pull plugin image"), Error("failed to save plugin image") }

\* This step pulled or exported a plugin build image and the call failed.
PluginFailed ==
    /\ pc = "plugins"
    /\ ops' # ops
    /\ ops'[Len(ops')].res = "failed"

\* C16: during plugin backup, the first pull or export failure of any plugin
\* build image makes backupPluginInfo return that error immediately: no
\* later plugin is pulled or exported, Run returns the error, no zip is
\* produced and status success is not persisted; plugin backup is only
\* started after backupServiceInfo succeeded for all services.
C16_PluginFailureAborts ==
    /\ [][PluginFailed =>
             /\ pc' = "returned"
             /\ err' \in PluginErrors
             /\ UNCHANGED <<b, local, remote, record, pli>>]_vars
    /\ [](\A i \in DOMAIN ops :
            (ops[i].op \in PluginOps /\ ops[i].res = "failed") =>
                /\ i = Len(ops)
                /\ Returned
                /\ err \in PluginErrors
                /\ pli = ops[i].item
                /\ \A j \in DOMAIN ops : ops[j].op \in PluginOps => ops[j].item <= pli
                /\ \A j \in DOMAIN ops : ops[j].op \notin {"zip", "pushZip"}
                /\ \A x \in DOMAIN local : ~HasSuffix(x, ".zip") \/ HasPrefix(x, Slash(WorkDir))
                /\ record.Status # "success")
    /\ []((pc = "plugins" \/ \E i \in DOMAIN ops : ops[i].op \in PluginOps) =>
            /\ DecodesAsStructured
            /\ si > Len(serviceInfos)
            /\ Len(serviceInfos) = Len(metadata.services)
            /\ \A s \in DOMAIN serviceInfos : TransferredOf(s) # {}
            /\ \A i \in DOMAIN ops :
                 ops[i].op \in {"zipAll", "zipVolume"} => ops[i].res = "ok")

\* The pull of the first of two plugin build images failed and Run
\* returned the error.
C16_Witness ==
    /\ Returned
    /\ err = Error("failed to pull plugin image")
    /\ plugins = 2
    /\ pli = 1
    /\ ops[Len(ops)] = Op("pullPlugin", 0, 1, "failed")

\* The metadata file cannot be read, or is a document of neither schema.
Unclassifiable == ~metadata.readable \/ metadata.kind = "invalid"

\* C18: when the metadata file is unreadable or cannot be classified
\* (decodes as neither schema), Run returns an error before any version is
\* existence-checked or transferred and before any volume or plugin is
\* archived; no zip is produced and status success is never persisted.
C18_BadMetadataAborts ==
    Unclassifiable =>
        /\ pc \in {"start", "judge", "unmarshal", "returned", "called back"}
        /\ ~metadata.readable => pc \in {"start", "returned", "called back"}
        /\ Returned =>
               err = IF metadata.readable
                     THEN Error("cannot unmarshal into []RegionServiceSnapshot")
                     ELSE Error("read region_apps_metadata.json")
        /\ ops = <<>>
        /\ sessions = <<>>
        /\ serviceInfos = <<>>
        /\ remote = <<>>
        /\ \A x \in DOMAIN local : x = MetadataPath(b.SourceDir)
        /\ b.BackupSize = 0 /\ b.SourceType = "local"
        /\ record.Status # "success"

\* Run returned the decode error for metadata of neither schema and the
\* scheduler called back.
C18_Witness ==
    /\ metadata.readable
    /\ Unclassifiable
    /\ pc = "called back"
    /\ err = Error("cannot unmarshal into []RegionServiceSnapshot")
    /\ record.Status = "failed"

(***************************************************************************)
(* The construction of the worker on its own.                              *)
(***************************************************************************)
InitCreater ==
    /\ \E in \in DescriptorSet, m \in ManagerSet : creater = [in |-> in, m |-> m, out |-> none]
    /\ proxy = NotCalled
    /\ etcd = NotCalled
    /\ pc = "create"
    /\ b = Task("", "", "", "")
    /\ metadata = Blob(FALSE, "invalid", <<>>, 0)
    /\ sharedData = {}
    /\ judged = [version |-> "", err |-> nil]
    /\ serviceInfos = <<>>
    /\ plugins = 0
    /\ si = 0
    /\ vi = 0
    /\ backupVersionSize = 0
    /\ voli = 0
    /\ pli = 0
    /\ err = nil
    /\ local = <<>>
    /\ remote = <<>>
    /\ probed = "none"
    /\ faults = 0
    /\ sessions = <<>>
    /\ ops = <<>>
    /\ record = [Status |-> "starting", SourceDir |-> "", SourceType |-> "", BuckupSize |-> 0]

\* The dispatcher calls the creater registered for backup_apps_new.
Creater_Call ==
    /\ pc = "create"
    /\ creater' = [creater EXCEPT !.out = BackupAPPNewCreater(creater.in, creater.m)]
    /\ pc' = "created"
    /\ UNCHANGED <<b, metadata, judged, serviceInfos, plugins, si, vi, backupVersionSize,
                   voli, pli, err, local, remote, sharedData, probed, faults, sessions,
                   proxy, etcd, ops, record>>

NextCreater == Creater_Call

SpecCreater == InitCreater /\ [][NextCreater]_vars

\* C19: constructing the worker from a task descriptor fails with an error,
\* returning no worker, when the descriptor cannot be decoded or when no
\* runtime (Docker) client is available; otherwise it returns a worker
\* carrying the descriptor's fields.
C19_CreaterValidates ==
    pc = "created" =>
        IF ~creater.in.decodable \/ creater.m.DockerClient = none
        THEN creater.out.workers = {} /\ creater.out.err # nil
        ELSE /\ creater.out.err = nil
             /\ Cardinality(creater.out.workers) = 1
             /\ \A w \in creater.out.workers :
                    /\ w.Mode = creater.in.Mode
                    /\ w.FTPHost = creater.in.FTPHost
                    /\ w.FTPPort = creater.in.FTPPort
                    /\ w.HubURL = creater.in.HubURL
                    /\ w.SourceDir = creater.in.SourceDir
                    /\ w.DockerClient = creater.m.DockerClient

(***************************************************************************)
(* Where the artifacts go.                                                 *)
(***************************************************************************)
\* The last collaborator call of the log.
LastOp == ops[Len(ops)]

\* The version the last call was about.
LastVersion == serviceInfos[LastOp.app].Versions[LastOp.item]

\* The artifact of the last call, as it is stored at its destination.
LastArtifact ==
    File(ArtifactSize(LastVersion), DeliveredPath(LastOp.app, LastOp.item, LastVersion))

\* The four destinations of the artifact of the last call.
SlugObject ==
    "ns/backup/group_version/app_" \o ServiceID(LastOp.app) \o "/"
        \o BuildVersion(LastOp.item) \o ".tgz"
SlugCopy ==
    WorkDir \o "/app_" \o ServiceID(LastOp.app) \o "/slug_"
        \o BuildVersion(LastOp.item) \o ".tgz"
HubImage ==
    b.HubURL \o "/ns/" \o ServiceID(LastOp.app) \o "_"
        \o BuildVersion(LastOp.item) \o ":version_backup"
ImageExport ==
    WorkDir \o "/app_" \o ServiceID(LastOp.app) \o "/image_"
        \o BuildVersion(LastOp.item) \o ".tar"

\* This step called uploadSlug / uploadImage.
Uploads(kind) == ops' # ops /\ LastOp'.op = kind

\* C20: a slug is pushed over a remote session iff mode is full-online and
\* both transfer host and port are non-empty, otherwise it is copied to
\* {sourceDir}/app_{service}/slug_{buildVersion}.tgz; an image is pushed to
\* the hub iff mode is full-online and the hub URL is non-empty, otherwise
\* it is exported to {sourceDir}/app_{service}/image_{buildVersion}.tar;
\* with mode full-offline no remote session is ever opened, nothing is
\* pushed to a registry and BackupSize changes only by the size of the
\* final zip.
C20_Destinations ==
    /\ [][Uploads("uploadSlug") =>
             IF b.Mode = "full-online" /\ b.FTPHost # "" /\ b.FTPPort # ""
             THEN /\ local' = local
                  /\ IF LastOp'.res = "ok"
                     THEN /\ remote' = Put(remote, SlugObject', LastArtifact')
                          /\ sessions' = sessions \o <<"open", "push", "close">>
                     ELSE /\ remote' = remote
                          /\ sessions' \in {sessions, sessions \o <<"open", "push", "close">>}
             ELSE /\ remote' = remote
                  /\ sessions' = sessions
                  /\ IF LastOp'.res = "ok"
                     THEN local' = Put(local, SlugCopy', LastArtifact')
                     ELSE local' = local]_vars
    /\ [][Uploads("uploadImage") =>
             /\ sessions' = sessions
             /\ IF b.Mode = "full-online" /\ b.HubURL # ""
                THEN /\ local' = local
                     /\ IF LastOp'.res = "ok"
                        THEN remote' = Put(remote, HubImage', LastArtifact')
                        ELSE remote' = remote
                ELSE /\ remote' = remote
                     /\ IF LastOp'.res = "ok"
                        THEN local' = Put(local, ImageExport', LastArtifact')
                        ELSE local' = local]_vars
    /\ [](b.Mode = "full-offline" => sessions = <<>> /\ DOMAIN remote = {})
    /\ [][(b.Mode = "full-offline" /\ b'.BackupSize # b.BackupSize) =>
             /\ pc = "zip"
             /\ pc' = "push"
             /\ b'.BackupSize = b.BackupSize + local'[b'.SourceDir].size]_vars

\* A full-online task without a transfer host and with a hub: a slug was
\* copied into the source directory and an image was pushed to the hub.
C20_Witness ==
    /\ b.Mode = "full-online"
    /\ b.FTPHost = ""
    /\ b.HubURL # ""
    /\ \E x \in DOMAIN local : HasPrefix(x, WorkDir \o "/app_") /\ HasSuffix(x, ".tgz")
    /\ \E x \in DOMAIN remote : HasPrefix(x, b.HubURL) /\ HasSuffix(x, ":version_backup")

(***************************************************************************)
(* uploadImage step by step, lines 363-399.                                *)
(***************************************************************************)
\* The image version uploadImage is called for.
ImageVersion == [DeliveredType |-> "image", FinalStatus |-> "success"]

\* BackupSize when uploadImage is called after one slug was pushed.
SizeBefore == ArtifactSize([DeliveredType |-> "slug", FinalStatus |-> "success"])

\* The tasks uploadImage is called for: the fields lines 364-387 read.
ImageTaskSet ==
    { [Task(m, "", "", u) EXCEPT !.BackupSize = n] @@ [IsTrust |-> t] :
        m \in {"full-online", "full-offline"}, u \in {"", "hub.host"},
        t \in BOOLEAN, n \in {0, SizeBefore} }

\* Every image is pushed with ImagePush, trusted hub or not.
pushPathPlain(bb) == "ImagePush"

\* `if b.ImageInfo.IsTrust`, lines 377-387: the push that is called.
pushPath(bb) == IF bb.IsTrust THEN "TrustedImagePush" ELSE "ImagePush"

InitImage ==
    /\ b \in ImageTaskSet
    /\ si \in 1..MaxServices
    /\ vi \in 1..MaxVersions
    /\ pc = "uploadImage"
    /\ creater = NotCalled
    /\ proxy = NotCalled
    /\ etcd = NotCalled
    /\ metadata = Blob(FALSE, "invalid", <<>>, 0)
    /\ sharedData = {}
    /\ judged = [version |-> "", err |-> nil]
    /\ serviceInfos = <<>>
    /\ plugins = 0
    /\ backupVersionSize = 0
    /\ voli = 0
    /\ pli = 0
    /\ err = nil
    /\ local = <<>>
    /\ remote = <<>>
    /\ probed = "none"
    /\ faults = 0
    /\ sessions = <<>>
    /\ ops = <<>>
    /\ record = [Status |-> "starting", SourceDir |-> "", SourceType |-> "", BuckupSize |-> 0]

\* What no step of uploadImage touches.
ImageFrame ==
    UNCHANGED <<creater, proxy, etcd, metadata, judged, serviceInfos, plugins, si, vi, backupVersionSize,
                voli, pli, sharedData, probed, faults, sessions, record>>

\* One call of a collaborator: it fails and uploadImage returns e, or it
\* succeeds and uploadImage goes on at next.
ImageCall(name, e, next) ==
    \E failed \in BOOLEAN :
        /\ ops' = ops \o <<Op(name, si, vi, IF failed THEN "failed" ELSE "ok")>>
        /\ IF failed THEN Return(Error(e)) ELSE pc' = next /\ err' = err

\* Line 364: the branch.
UI_Branch ==
    /\ pc = "uploadImage"
    /\ pc' = IF ImageIsRemote(b) THEN "share" ELSE "save"
    /\ UNCHANGED <<b, local, remote, err, ops>>
    /\ ImageFrame

\* version.CreateShareImage, lines 365-368.
UI_Share ==
    /\ pc = "share"
    /\ ImageCall("CreateShareImage", "create backup image error", "pull")
    /\ UNCHANGED <<b, local, remote>>
    /\ ImageFrame

\* sources.ImagePull, lines 370-373.
UI_Pull ==
    /\ pc = "pull"
    /\ ImageCall("ImagePull", "pull image when backup error", "tag")
    /\ UNCHANGED <<b, local, remote>>
    /\ ImageFrame

\* sources.ImageTag, lines 374-376.
UI_Tag ==
    /\ pc = "tag"
    /\ ImageCall("ImageTag", "change image tag when backup error", "push")
    /\ UNCHANGED <<b, local, remote>>
    /\ ImageFrame

\* sources.TrustedImagePush or sources.ImagePush, then the size, lines 377-388.
UI_Push ==
    /\ pc = "push"
    /\ ImageCall(pushPath(b), "backup image push error", "returned")
    /\ IF pc' = "returned" /\ err' = nil
       THEN /\ b' = [b EXCEPT !.BackupSize = @ + ArtifactSize(ImageVersion)]
            /\ remote' = Put(remote, b.HubURL \o "/ns/" \o ServiceID(si) \o "_"
                                       \o BuildVersion(vi) \o ":version_backup",
                             File(ArtifactSize(ImageVersion),
                                  DeliveredPath(si, vi, ImageVersion)))
       ELSE UNCHANGED <<b, remote>>
    /\ UNCHANGED local
    /\ ImageFrame

\* sources.ImageSave, lines 390-396.
UI_Save ==
    /\ pc = "save"
    /\ ImageCall("ImageSave", "save image to local dir error", "returned")
    /\ IF pc' = "returned" /\ err' = nil
       THEN local' = Put(local, Slash(b.SourceDir) \o "app_" \o ServiceID(si)
                                  \o "/image_" \o BuildVersion(vi) \o ".tar",
                         File(ArtifactSize(ImageVersion),
                              DeliveredPath(si, vi, ImageVersion)))
       ELSE UNCHANGED local
    /\ UNCHANGED <<b, remote>>
    /\ ImageFrame

NextImage ==
    \/ UI_Branch
    \/ UI_Share
    \/ UI_Pull
    \/ UI_Tag
    \/ UI_Push
    \/ UI_Save

SpecImage == InitImage /\ [][NextImage]_vars

\* The names of the calls made so far, and the calls that are a push.
CallNames == [i \in DOMAIN ops |-> ops[i].op]
PushCalls == { i \in DOMAIN ops : ops[i].op \in {"TrustedImagePush", "ImagePush"} }

\* C21: in a remote image transfer the steps happen in the order derive
\* backup reference, pull, retag, push; the push is never attempted unless
\* pull and retag succeeded; exactly one push path is used, the trusted push
\* iff the hub is marked trusted; the image's size is added to BackupSize
\* only after the push succeeded; a failure at any step returns an error and
\* leaves BackupSize unchanged.
C21_RemoteImageSteps ==
    /\ [](ImageIsRemote(b) =>
            /\ \E k \in 0..4 :
                 CallNames = SubSeq(<<"CreateShareImage", "ImagePull", "ImageTag",
                                      IF b.IsTrust THEN "TrustedImagePush" ELSE "ImagePush">>,
                                    1, k)
            /\ \A i \in DOMAIN ops : i < Len(ops) => ops[i].res = "ok"
            /\ \A i \in PushCalls :
                 /\ i = 3 + 1
                 /\ ops[2].op = "ImagePull" /\ ops[2].res = "ok"
                 /\ ops[3].op = "ImageTag" /\ ops[3].res = "ok"
            /\ Cardinality(PushCalls) <= 1
            /\ (pc = "returned" /\ err = nil) => Cardinality(PushCalls) = 1
            /\ (ops # <<>> /\ ops[Len(ops)].res = "failed") => pc = "returned" /\ err # nil
            /\ (pc = "returned" /\ err # nil) => ops[Len(ops)].res = "failed")
    /\ [][(ImageIsRemote(b) /\ b'.BackupSize # b.BackupSize) =>
             /\ ops' = ops \o <<Op(IF b.IsTrust THEN "TrustedImagePush" ELSE "ImagePush",
                                   si, vi, "ok")>>
             /\ b'.BackupSize = b.BackupSize + ArtifactSize(ImageVersion)]_vars
    /\ [][(ImageIsRemote(b) /\ ops' # ops /\ ops'[Len(ops')].res = "failed") =>
             b'.BackupSize = b.BackupSize /\ remote' = remote /\ local' = local]_vars
    /\ [](ImageIsRemote(b) /\ pc = "returned" /\ err # nil =>
            b.BackupSize \in {0, SizeBefore} /\ remote = <<>>)

\* A trusted hub: the image was pulled, retagged and pushed with the trusted
\* push, and its size was added to a BackupSize that was not zero.
C21_Witness ==
    /\ ImageIsRemote(b)
    /\ b.IsTrust
    /\ pc = "returned"
    /\ err = nil
    /\ Len(ops) = 4
    /\ ops[4] = Op("TrustedImagePush", si, vi, "ok")
    /\ b.BackupSize = SizeBefore + ArtifactSize(ImageVersion)

(***************************************************************************)
(* package proxy: Config and Config.Equal, lines 493-638.                  *)
(***************************************************************************)
\* The worker is not part of what package proxy does.
NoWorker ==
    /\ b = Task("", "", "", "")
    /\ creater = NotCalled
    /\ metadata = Blob(FALSE, "invalid", <<>>, 0)
    /\ sharedData = {}
    /\ judged = [version |-> "", err |-> nil]
    /\ serviceInfos = <<>>
    /\ plugins = 0
    /\ si = 0
    /\ vi = 0
    /\ backupVersionSize = 0
    /\ voli = 0
    /\ pli = 0
    /\ err = nil
    /\ local = <<>>
    /\ remote = <<>>
    /\ probed = "none"
    /\ faults = 0
    /\ sessions = <<>>
    /\ ops = <<>>
    /\ record = [Status |-> "starting", SourceDir |-> "", SourceType |-> "", BuckupSize |-> 0]

WorkerFrame ==
    UNCHANGED <<b, creater, metadata, judged, serviceInfos, plugins, si, vi,
                backupVersionSize, voli, pli, err, local, remote, sharedData, probed,
                faults, sessions, ops, record>>

\* The header names and values of the configurations.
MaxHeaders == 2
HeaderNames == { "X-H" \o ToString(i) : i \in 1..MaxHeaders }
HeaderValues == {"", "v"}

\* map[string]string over the header names.
HeaderMaps == UNION { [ks -> HeaderValues] : ks \in SUBSET HeaderNames }

\* m[k] of a Go map: the zero value when k is not a key.
Lookup(m, k) == IF k \in DOMAIN m THEN m[k] ELSE ""

\* A Config, lines 493-511.
BaseConfig ==
    [BodySize |-> 0, ConnectTimeout |-> 5, SendTimeout |-> 60, ReadTimeout |-> 60,
     BuffersNumber |-> 4, BufferSize |-> "4k", CookieDomain |-> "off",
     CookiePath |-> "off", NextUpstream |-> "error timeout",
     NextUpstreamTimeout |-> 0, NextUpstreamTries |-> 3,
     ProxyRedirectFrom |-> "off", ProxyRedirectTo |-> "off",
     RequestBuffering |-> "on", ProxyBuffering |-> "off",
     SetHeaders |-> <<>>, ResponseHeaders |-> <<>>]

IntFields ==
    {"BodySize", "ConnectTimeout", "SendTimeout", "ReadTimeout", "BuffersNumber",
     "NextUpstreamTimeout", "NextUpstreamTries"}
StringFields ==
    {"BufferSize", "CookieDomain", "CookiePath", "NextUpstream", "ProxyRedirectFrom",
     "ProxyRedirectTo", "RequestBuffering", "ProxyBuffering"}

\* The configurations compared: BaseConfig, and BaseConfig with one field
\* set to another value.
ConfigSet ==
    {BaseConfig}
    \cup { [BaseConfig EXCEPT ![f] = 7] : f \in IntFields }
    \cup { [BaseConfig EXCEPT ![f] = "other"] : f \in StringFields }
    \cup { [BaseConfig EXCEPT !.SetHeaders = m] : m \in HeaderMaps }
    \cup { [BaseConfig EXCEPT !.ResponseHeaders = m] : m \in HeaderMaps }

\* s.Equal(l2) for non-nil s and l2, lines 576-637.
Equal(s, l2) ==
    /\ s.BodySize = l2.BodySize
    /\ s.ConnectTimeout = l2.ConnectTimeout
    /\ s.SendTimeout = l2.SendTimeout
    /\ s.ReadTimeout = l2.ReadTimeout
    /\ s.BuffersNumber = l2.BuffersNumber
    /\ s.BufferSize = l2.BufferSize
    /\ s.CookieDomain = l2.CookieDomain
    /\ s.CookiePath = l2.CookiePath
    /\ s.NextUpstream = l2.NextUpstream
    /\ s.NextUpstreamTries = l2.NextUpstreamTries
    /\ s.RequestBuffering = l2.RequestBuffering
    /\ s.ProxyRedirectFrom = l2.ProxyRedirectFrom
    /\ s.ProxyRedirectTo = l2.ProxyRedirectTo
    /\ s.ProxyBuffering = l2.ProxyBuffering
    /\ Cardinality(DOMAIN s.SetHeaders) = Cardinality(DOMAIN l2.SetHeaders)
    /\ Cardinality(DOMAIN s.ResponseHeaders) = Cardinality(DOMAIN l2.ResponseHeaders)
    /\ \A k \in DOMAIN s.SetHeaders : Lookup(l2.SetHeaders, k) = s.SetHeaders[k]
    /\ \A k \in DOMAIN s.ResponseHeaders : Lookup(l2.ResponseHeaders, k) = s.ResponseHeaders[k]

InitEqual ==
    /\ \E s \in ConfigSet, l2 \in ConfigSet : proxy = [s |-> s, l2 |-> l2]
    /\ pc = "equal"
    /\ etcd = NotCalled
    /\ NoWorker

\* s.Equal(l2) and l2.Equal(s) are called.
Equal_Call ==
    /\ pc = "equal"
    /\ proxy' = proxy @@ [out |-> Equal(proxy.s, proxy.l2), back |-> Equal(proxy.l2, proxy.s)]
    /\ pc' = "compared"
    /\ UNCHANGED etcd
    /\ WorkerFrame

NextEqual == Equal_Call

SpecEqual == InitEqual /\ [][NextEqual]_vars

\* Two configurations have the same fields: the scalar fields are equal and
\* the header maps have the same keys with the same values.
SameFields(s, l2) ==
    /\ \A f \in IntFields \cup StringFields : s[f] = l2[f]
    /\ \A f \in {"SetHeaders", "ResponseHeaders"} :
         /\ DOMAIN s[f] = DOMAIN l2[f]
         /\ \A k \in DOMAIN s[f] : s[f][k] = l2[f][k]

\* C22: Config.Equal is an equality test: for two non-nil configs it returns
\* true if and only if all their configuration fields (NextUpstreamTimeout
\* and both header maps included) are equal, and it is reflexive and
\* symmetric.
C22_EqualIsEquality ==
    pc = "compared" =>
        /\ proxy.out = SameFields(proxy.s, proxy.l2)
        /\ proxy.out = proxy.back
        /\ proxy.s = proxy.l2 => proxy.out

(***************************************************************************)
(* Versions that are not backed up.                                        *)
(***************************************************************************)
\* No version of service s, as declared, can be backed up.
NothingEligible(s) == \A v \in DOMAIN metadata.services[s].Versions : ~Eligible(s, v)

\* This step of the version loop is about a version that cannot be backed up.
OverIneligible ==
    /\ pc = "versions"
    /\ vi <= Len(serviceInfos[si].Versions)
    /\ ~Eligible(si, vi)
    /\ vi' # vi

\* C23: a version whose final status is not success, or whose delivered kind
\* is neither slug nor image, is never existence-checked, never transferred,
\* never counted and never has its status changed by backupServiceInfo; a
\* service that has only such versions (or no version at all) aborts the
\* task with the zero-success error.
C23_IneligibleIsIgnored ==
    /\ [](\A s \in DOMAIN serviceInfos : \A v \in DOMAIN serviceInfos[s].Versions :
            ~Eligible(s, v) => Untouched(s, v) /\ ~Transferred(s, v))
    /\ [][OverIneligible =>
             /\ vi' = vi + 1
             /\ pc' = "versions"
             /\ UNCHANGED <<b, local, remote, ops, serviceInfos, backupVersionSize,
                            si, err, sessions, record>>]_vars
    /\ [](\A s \in DOMAIN serviceInfos :
            NothingEligible(s) =>
                /\ TransferredOf(s) = {}
                /\ InService(s) => pc = "versions" /\ backupVersionSize = 0
                /\ si <= s
                /\ (Returned /\ si = s) => err = NoVersionError(s))
    /\ [][(/\ pc = "versions"
           /\ NothingEligible(si)
           /\ vi > Len(serviceInfos[si].Versions)) =>
             /\ pc' = "returned"
             /\ err' = NoVersionError(si)
             /\ UNCHANGED <<b, local, remote, ops, serviceInfos>>]_vars

\* A service declares a failed slug and a version of another kind: Run
\* returned the error that names it and both versions are as declared.
C23_Witness ==
    /\ Returned
    /\ err = NoVersionError(1)
    /\ Len(serviceInfos[1].Versions) = 2
    /\ serviceInfos[1].Versions[1].FinalStatus = "failure"
    /\ serviceInfos[1].Versions[2].DeliveredType = "other"
    /\ Untouched(1, 1)
    /\ Untouched(1, 2)
    /\ ops = <<>>

(***************************************************************************)
(* The place of the data bundles.                                          *)
(***************************************************************************)
\* The services whose shared data has been archived, and the last of them.
AllDataServices == { s \in DOMAIN serviceInfos : AllDataBundles(s) # {} }
LastAllDataService == CHOOSE s \in AllDataServices : \A t \in AllDataServices : t <= s

\* The volumes that have been archived.
VolumeBundles ==
    { o \in { ops[i] : i \in DOMAIN ops } : o.op = "zipVolume" /\ o.res = "ok" }

\* The files of the source directory that are data bundles.
DataFiles == { x \in DOMAIN local : HasPrefix(x, WorkDir \o "/data_") }
AllDataFiles == { x \in DataFiles : HasPrefix(x, WorkDir \o "/data_all/") }

\* C24: every service's all-data bundle is written to the same path
\* {sourceDir}/data_all/data.zip, whatever the service: after any number of
\* services the source directory holds at most one all-data bundle, that of
\* the last service that produced one, while the per-volume bundles are
\* kept apart per service under data_{serviceID}/.
C24_OneAllDataBundle ==
    /\ [][(ops' # ops /\ LastOp'.op = "zipAll" /\ LastOp'.res = "ok") =>
             local' = Put(local, WorkDir \o "/data_all/data.zip",
                          File(1, ServiceVolumeData(si)))]_vars
    /\ [](~ZipTried =>
            /\ Cardinality(AllDataFiles) <= 1
            /\ AllDataFiles = {} <=> AllDataServices = {}
            /\ AllDataServices # {} =>
                   /\ AllDataFiles = {WorkDir \o "/data_all/data.zip"}
                   /\ local[WorkDir \o "/data_all/data.zip"].src
                          = ServiceVolumeData(LastAllDataService)
            /\ \A o \in VolumeBundles :
                   /\ HasPrefix(VolumePath(o.app, o.item),
                                WorkDir \o "/data_" \o ServiceID(o.app) \o "/")
                   /\ VolumePath(o.app, o.item) \in DataFiles
                   /\ local[VolumePath(o.app, o.item)].src
                          = serviceInfos[o.app].ServiceVolume[o.item].HostPath
            /\ Cardinality(DataFiles \ AllDataFiles) = Cardinality(VolumeBundles))

\* The shared data of two services was archived, as was a volume of each:
\* one all-data bundle is left, the second service's, and two volume
\* bundles.
C24_Witness ==
    /\ ~ZipTried
    /\ AllDataServices = {1, 2}
    /\ Cardinality(VolumeBundles) = 2
    /\ \E o \in VolumeBundles : o.app = 1
    /\ \E o \in VolumeBundles : o.app = 2
    /\ AllDataFiles = {WorkDir \o "/data_all/data.zip"}
    /\ local[WorkDir \o "/data_all/data.zip"].src = ServiceVolumeData(2)

(***************************************************************************)
(* The etcd Component, etcdComponent.go lines 16-86.                       *)
(***************************************************************************)
\* The attempts of the loop are counted up to MaxAttempts; the loop itself
\* has no bound.
MaxAttempts == 3

\* cfg.APIConfig: the three TLS files, each configured or not, and whether
\* tlsInfo.ClientConfig() fails on them.
EtcdConfigSet ==
    [CaFile : {"", "ca.pem"}, CertFile : {"", "cert.pem"}, KeyFile : {"", "key.pem"},
     tlsFails : BOOLEAN]

\* The TLS test with any of the files.
tlsConfiguredAny(cfg) == cfg.CaFile # "" \/ cfg.CertFile # "" \/ cfg.KeyFile # ""

\* `clientArgs.CaFile != "" && clientArgs.CertFile != "" && clientArgs.KeyFile != ""`, line 58.
tlsConfigured(cfg) == cfg.CaFile # "" /\ cfg.CertFile # "" /\ cfg.KeyFile # ""

\* Etcd() made the component and Start is called with a configuration.
InitEtcd ==
    /\ \E cfg \in EtcdConfigSet :
         etcd = [cfg |-> cfg, start |-> "called", loop |-> "none",
                 EtcdClient |-> none, attempts |-> 0, sets |-> 0]
    /\ pc = "etcd"
    /\ proxy = NotCalled
    /\ NoWorker

EtcdFrame == UNCHANGED <<pc, proxy>> /\ WorkerFrame

\* Start, lines 35-70: the client configuration and its TLS part.
Etcd_Config ==
    /\ etcd.start = "called"
    /\ etcd' = [etcd EXCEPT !.start = IF tlsConfigured(etcd.cfg) /\ etcd.cfg.tlsFails
                                      THEN "returned err" ELSE "go"]
    /\ EtcdFrame

\* Start, line 71: gogo.Go starts the goroutine.
Etcd_Go ==
    /\ etcd.start = "go"
    /\ etcd' = [etcd EXCEPT !.start = "return", !.loop = "new"]
    /\ EtcdFrame

\* Start, line 85.
Etcd_Return ==
    /\ etcd.start = "return"
    /\ etcd' = [etcd EXCEPT !.start = "returned nil"]
    /\ EtcdFrame

\* The goroutine, lines 75-81: one attempt.
Etcd_New ==
    /\ etcd.loop = "new"
    /\ \E failed \in BOOLEAN :
         etcd' = [etcd EXCEPT
                    !.attempts = IF @ < MaxAttempts THEN @ + 1 ELSE @,
                    !.EtcdClient = IF failed THEN @ ELSE "client",
                    !.sets = IF failed THEN @ ELSE @ + 1,
                    !.loop = IF failed THEN "sleep" ELSE "done"]
    /\ EtcdFrame

\* The goroutine, line 82: time.Sleep(10 * time.Second) is over.
Etcd_Sleep ==
    /\ etcd.loop = "sleep"
    /\ etcd' = [etcd EXCEPT !.loop = "new"]
    /\ EtcdFrame

NextEtcd ==
    \/ Etcd_Config
    \/ Etcd_Go
    \/ Etcd_Return
    \/ Etcd_New
    \/ Etcd_Sleep

\* Start runs to its return, the goroutine is scheduled and its sleep ends;
\* nothing makes an attempt succeed.
SpecEtcd ==
    /\ InitEtcd
    /\ [][NextEtcd]_vars
    /\ WF_vars(Etcd_Config)
    /\ WF_vars(Etcd_Go)
    /\ WF_vars(Etcd_Return)
    /\ WF_vars(Etcd_New)
    /\ WF_vars(Etcd_Sleep)

\* C25: Start returns nil without waiting for a connection; it returns an
\* error, and starts no background work, only when the TLS files are
\* configured and the TLS configuration fails.  The background loop tries
\* again after every sleep with no bound on the attempts; EtcdClient stays
\* nil until an attempt succeeds, it is set exactly once, and once an
\* attempt has succeeded the loop has stopped and EtcdClient is non-nil from
\* then on.
C25_StartAndRetry ==
    /\ <>(etcd.start \in {"returned nil", "returned err"})
    /\ [](etcd.start = "returned err" <=>
            (etcd.start # "called"
             /\ etcd.cfg.CaFile # "" /\ etcd.cfg.CertFile # "" /\ etcd.cfg.KeyFile # ""
             /\ etcd.cfg.tlsFails))
    /\ [](etcd.start = "returned err" =>
            etcd.loop = "none" /\ etcd.EtcdClient = none /\ etcd.attempts = 0)
    /\ [][etcd.start = "return" /\ etcd'.start # "return" =>
             etcd'.start = "returned nil" /\ etcd'.loop = etcd.loop
             /\ etcd'.EtcdClient = etcd.EtcdClient]_vars
    /\ [](etcd.start \in {"return", "returned nil"} => etcd.loop # "none")
    /\ [](etcd.sets <= 1)
    /\ [](etcd.EtcdClient = none <=> etcd.sets = 0)
    /\ [](etcd.EtcdClient # none <=> etcd.loop = "done")
    /\ [](etcd.loop = "sleep" => etcd.attempts > 0 /\ etcd.EtcdClient = none)
    /\ [][etcd.EtcdClient # none =>
             /\ etcd'.EtcdClient = etcd.EtcdClient
             /\ etcd'.loop = "done"
             /\ etcd'.attempts = etcd.attempts
             /\ etcd'.sets = etcd.sets]_vars
    /\ [][etcd'.attempts # etcd.attempts =>
             /\ etcd.loop = "new"
             /\ etcd'.loop \in {"sleep", "done"}
             /\ etcd'.loop = "sleep" <=> etcd'.EtcdClient = none]_vars
    /\ (etcd.loop = "sleep") ~> (etcd.loop = "new")
    /\ [](etcd.loop = "new" => <>(etcd.attempts = MaxAttempts \/ etcd.EtcdClient # none))

\* Start has returned nil, the first attempts failed, one succeeded after
\* that and the client is set.
C25_Witness ==
    /\ etcd.start = "returned nil"
    /\ etcd.attempts = MaxAttempts
    /\ etcd.EtcdClient = "client"
    /\ etcd.loop = "done"
    /\ etcd.sets = 1

(***************************************************************************)
(* proxy.Parse, lines 651-762.                                             *)
(***************************************************************************)
\* The annotation of every scalar field of Config, as Parse reads them.
AnnotationOf ==
    [ConnectTimeout |-> "proxy-connect-timeout", SendTimeout |-> "proxy-send-timeout",
     ReadTimeout |-> "proxy-read-timeout", BuffersNumber |-> "proxy-buffers-number",
     BufferSize |-> "proxy-buffer-size", CookiePath |-> "proxy-cookie-path",
     CookieDomain |-> "proxy-cookie-domain", BodySize |-> "proxy-body-size",
     NextUpstream |-> "proxy-next-upstream",
     NextUpstreamTries |-> "proxy-next-upstream-tries",
     NextUpstreamTimeout |-> "proxy-next-upstream-timeout",
     RequestBuffering |-> "proxy-request-buffering",
     ProxyRedirectFrom |-> "proxy-redirect-from", ProxyRedirectTo |-> "proxy-redirect-to",
     ProxyBuffering |-> "proxy-buffering"]

\* At most this many scalar annotations are set on an ingress.
MaxAnnotations == 1

\* The scalar annotations of an ingress that parser.GetIntAnnotation and
\* parser.GetStringAnnotation return without error, with their values; for
\* any other annotation (missing or invalid) they return an error.
ScalarAnnotations ==
    { [f \in fs |-> IF f \in IntFields THEN 7 ELSE "other"] :
        fs \in { x \in SUBSET (IntFields \cup StringFields) : Cardinality(x) <= MaxAnnotations } }

\* What parser.GetStringAnnotationWithPrefix returns: header name to value.
AnnotatedHeaders == UNION { [ks -> {"empty", "v"}] : ks \in SUBSET HeaderNames }

\* The ingress annotations.
MetaSet ==
    [scalars : ScalarAnnotations, setHeaders : AnnotatedHeaders,
     respHeaders : AnnotatedHeaders]

\* a.r.GetDefaultBackend(): each field of Config has its default, and there
\* are default headers or none.
DefaultBackendSet ==
    { [BaseConfig EXCEPT !.SetHeaders = m] : m \in {<<>>, [k \in {"X-H1"} |-> "default"]} }

\* `if v == "empty" { v = "" }`, lines 744-746 and 756-758.
Unempty(v) == IF v = "empty" THEN "" ELSE v

\* The config Parse has built when it reaches the response headers, lines 653-749.
parseRequest(meta, defBackend) ==
    [f \in DOMAIN BaseConfig |->
        IF f = "SetHeaders"
        THEN [k \in DOMAIN defBackend.SetHeaders \cup DOMAIN meta.setHeaders |->
                 IF k \in DOMAIN meta.setHeaders
                 THEN Unempty(meta.setHeaders[k])
                 ELSE defBackend.SetHeaders[k]]
        ELSE IF f = "ResponseHeaders"
        THEN <<>>
        ELSE IF f \in DOMAIN meta.scalars THEN meta.scalars[f] ELSE defBackend[f]]

\* Parse(meta): config.ResponseHeaders is never made, so the assignment of
\* line 759 is to an entry of a nil map and panics; without a resp-header-
\* annotation the loop has no iteration and Parse returns (config, nil).
Parse(meta, defBackend) ==
    IF DOMAIN meta.respHeaders # {}
    THEN [result |-> "panic: assignment to entry in nil map", configs |-> {}, err |-> nil]
    ELSE [result |-> "returned", configs |-> {parseRequest(meta, defBackend)}, err |-> nil]

InitParse ==
    /\ \E meta \in MetaSet, defBackend \in DefaultBackendSet :
         proxy = [meta |-> meta, defBackend |-> defBackend]
    /\ pc = "parse"
    /\ etcd = NotCalled
    /\ NoWorker

\* The annotation parser is called for an ingress.
Parse_Call ==
    /\ pc = "parse"
    /\ proxy' = proxy @@ [out |-> Parse(proxy.meta, proxy.defBackend)]
    /\ pc' = "parsed"
    /\ UNCHANGED etcd
    /\ WorkerFrame

NextParse == Parse_Call

SpecParse == InitParse /\ [][NextParse]_vars

\* C26: proxy.Parse returns a config and a nil error for every ingress
\* annotation set: each missing or invalid annotation falls back to the
\* default-backend value, SetHeaders holds the default headers overridden by
\* every set-header- annotation, ResponseHeaders holds every resp-header-
\* annotation, and an annotation value of "empty" is stored as the empty
\* string.
C26_ParseIsTotal ==
    pc = "parsed" =>
        /\ proxy.out.result = "returned"
        /\ proxy.out.err = nil
        /\ Cardinality(proxy.out.configs) = 1
        /\ \A config \in proxy.out.configs :
             /\ \A f \in IntFields \cup StringFields :
                  config[f] = IF f \in DOMAIN proxy.meta.scalars
                              THEN proxy.meta.scalars[f]
                              ELSE proxy.defBackend[f]
             /\ DOMAIN config.SetHeaders
                    = DOMAIN proxy.defBackend.SetHeaders \cup DOMAIN proxy.meta.setHeaders
             /\ \A k \in DOMAIN config.SetHeaders :
                  config.SetHeaders[k] =
                      IF k \notin DOMAIN proxy.meta.setHeaders
                      THEN proxy.defBackend.SetHeaders[k]
                      ELSE IF proxy.meta.setHeaders[k] = "empty" THEN ""
                      ELSE proxy.meta.setHeaders[k]
             /\ DOMAIN config.ResponseHeaders = DOMAIN proxy.meta.respHeaders
             /\ \A k \in DOMAIN config.ResponseHeaders :
                  config.ResponseHeaders[k] =
                      IF proxy.meta.respHeaders[k] = "empty" THEN ""
                      ELSE proxy.meta.respHeaders[k]

====
